---- MODULE Spec2Model ----
(***************************************************************************)
(* A model of blogsync's publish command (src/publish.go), the equality    *)
(* law it uses to avoid updates (src/cmp.go) and the metadata and slug     *)
(* helpers it calls (src/internal/blog/blog.go).                           *)
(*                                                                         *)
(* Go strings that the program inspects or transforms (paths, titles,      *)
(* slugs, frontmatter strings, rendered bodies) are sequences of           *)
(* one-character strings, so "" is << >>.  Post identifiers and tokens are *)
(* opaque to the program; they are naturals and 0 is the empty string.     *)
(* A Go pointer is a sequence of length 0 (nil) or 1 (the pointee).        *)
(* A time.Time is a natural and 0 is the zero time.                        *)
(***************************************************************************)
EXTENDS Integers, Sequences, FiniteSets, TLC

\* The largest number of files in the content tree of a run.
MaxPages == 2
\* The largest number of posts the remote service lists.
MaxPosts == 2

(***************************************************************************)
(* Strings                                                                 *)
(***************************************************************************)
Upper == <<"A","B","C","D","E","F","G","H","I","J","K","L","M",
           "N","O","P","Q","R","S","T","U","V","W","X","Y","Z">>
Lower == <<"a","b","c","d","e","f","g","h","i","j","k","l","m",
           "n","o","p","q","r","s","t","u","v","w","x","y","z">>

Separator == "/"

ToLowerChar(c) ==
  IF \E k \in 1..Len(Upper) : Upper[k] = c
  THEN Lower[CHOOSE k \in 1..Len(Upper) : Upper[k] = c]
  ELSE c

\* strings.ToLower
ToLower(s) == [k \in 1..Len(s) |-> ToLowerChar(s[k])]

\* strings.ReplaceAll for a one-character old and new string
ReplaceAll(s, old, new) == [k \in 1..Len(s) |-> IF s[k] = old THEN new ELSE s[k]]

HasSuffix(s, suf) ==
  /\ Len(suf) <= Len(s)
  /\ SubSeq(s, Len(s) - Len(suf) + 1, Len(s)) = suf

\* strings.TrimSuffix
TrimSuffix(s, suf) ==
  IF HasSuffix(s, suf) THEN SubSeq(s, 1, Len(s) - Len(suf)) ELSE s

\* The index of the last path separator of s, 0 when there is none.
LastSep(s) ==
  IF \E k \in 1..Len(s) : s[k] = Separator
  THEN CHOOSE k \in 1..Len(s) :
         /\ s[k] = Separator
         /\ \A m \in (k+1)..Len(s) : s[m] # Separator
  ELSE 0

RECURSIVE StripSep(_)
\* s without its trailing path separators.
StripSep(s) ==
  IF Len(s) > 0 /\ s[Len(s)] = Separator THEN StripSep(SubSeq(s, 1, Len(s) - 1)) ELSE s

\* filepath.Base: the last element of the path, "." for the empty path and
\* the separator for a path of separators only.
Base(path) ==
  IF path = << >> THEN <<".">>
  ELSE LET p == StripSep(path)
           b == SubSeq(p, LastSep(p) + 1, Len(p))
       IN IF b = << >> THEN <<Separator>> ELSE b

\* filepath.Dir of a clean path.
Dir(path) ==
  IF LastSep(path) = 0 THEN <<".">>
  ELSE IF LastSep(path) = 1 THEN <<Separator>>
  ELSE SubSeq(path, 1, LastSep(path) - 1)

\* filepath.Ext: the suffix beginning at the final dot in the final element.
Ext(path) ==
  LET b == LastSep(path)
      dots == {k \in (b+1)..Len(path) : path[k] = "."}
  IN IF dots = {} THEN << >>
     ELSE SubSeq(path, CHOOSE k \in dots : \A m \in dots : m <= k, Len(path))

(***************************************************************************)
(* Metadata (src/internal/blog/blog.go)                                    *)
(***************************************************************************)
\* The dynamically typed values a decoded frontmatter holds.
StrV(s)  == [t |-> "string", s |-> s]
BoolV(b) == [t |-> "bool", b |-> b]
IntV(n)  == [t |-> "int64", n |-> n]
TimeV(x) == [t |-> "time", tm |-> x]
NilV     == [t |-> "nil"]

get(m, key) ==
  IF key \in DOMAIN m THEN <<m[key], TRUE>> ELSE <<NilV, FALSE>>

GetString(m, key) ==
  LET r == get(m, key)
  IN IF ~r[2] THEN << >>
     ELSE IF r[1].t = "string" THEN r[1].s ELSE << >>

GetBool(m, key) ==
  LET r == get(m, key)
  IN IF ~r[2] THEN FALSE
     ELSE IF r[1].t = "bool" THEN r[1].b ELSE FALSE

\* The layouts of fmts, in order: RFC3339, RFC3339Nano, date-time, date.
fmts == <<"RFC3339", "RFC3339Nano", "2006-01-02T15:04:05", "2006-01-02">>

d2020 == <<"2","0","2","0","-","0","1","-","0","1">>
d2021 == <<"2","0","2","1","-","0","1","-","0","1">>
midnight == <<"T","0","0",":","0","0",":","0","0">>

\* time.Parse on the strings of the model: <<time, ok>>.  A date parses with
\* the date layout only, a date-time without zone with the date-time layout
\* only, and a date-time with zone Z with both RFC 3339 layouts.
timeParse(layout, s) ==
  LET yr(d) == IF d = d2020 THEN 1 ELSE 2
      isDate(d) == d = d2020 \/ d = d2021
      date == SubSeq(s, 1, 10)
      rest == SubSeq(s, 11, Len(s))
  IN IF Len(s) < 10 \/ ~isDate(date) THEN <<0, FALSE>>
     ELSE IF rest = << >> THEN
       IF layout = "2006-01-02" THEN <<yr(date), TRUE>> ELSE <<0, FALSE>>
     ELSE IF rest = midnight THEN
       IF layout = "2006-01-02T15:04:05" THEN <<yr(date), TRUE>> ELSE <<0, FALSE>>
     ELSE IF rest = midnight \o <<"Z">> THEN
       IF layout \in {"RFC3339", "RFC3339Nano"} THEN <<yr(date), TRUE>> ELSE <<0, FALSE>>
     ELSE <<0, FALSE>>

\* GetTime reading an integer as a time.
GetTime_intAsTime(m, key) ==
  LET r == get(m, key)
      ok == {k \in 1..Len(fmts) : timeParse(fmts[k], r[1].s)[2]}
  IN IF ~r[2] THEN 0
     ELSE IF r[1].t = "time" THEN r[1].tm
     ELSE IF r[1].t = "string" THEN
       IF ok = {} THEN 0
       ELSE timeParse(fmts[CHOOSE k \in ok : \A m2 \in ok : k <= m2], r[1].s)[1]
     ELSE IF r[1].t = "int64" THEN r[1].n
     ELSE 0

GetTime(m, key) ==
  LET r == get(m, key)
      ok == {k \in 1..Len(fmts) : timeParse(fmts[k], r[1].s)[2]}
  IN IF ~r[2] THEN 0
     ELSE IF r[1].t = "time" THEN r[1].tm
     ELSE IF r[1].t = "string" THEN
       IF ok = {} THEN 0
       ELSE timeParse(fmts[CHOOSE k \in ok : \A m2 \in ok : k <= m2], r[1].s)[1]
     ELSE 0

indexMd == <<"i","n","d","e","x",".","m","d">>

\* Slug looking at the title before the slug.
Slug_titleFirst(filename, meta) ==
  LET s1 == GetString(meta, "title")
      s2 == IF s1 = << >> THEN GetString(meta, "slug") ELSE s1
      base == Base(filename)
      s3 == IF s2 = << >> /\ base = indexMd THEN Base(Dir(filename)) ELSE s2
      s4 == IF s2 = << >> /\ s3 = << >> THEN TrimSuffix(base, Ext(base)) ELSE s3
  IN ReplaceAll(ReplaceAll(ToLower(s4), " ", "-"), Separator, "-")

Slug(filename, meta) ==
  LET s1 == GetString(meta, "slug")
      s2 == IF s1 = << >> THEN GetString(meta, "title") ELSE s1
      base == Base(filename)
      s3 == IF s2 = << >> /\ base = indexMd THEN Base(Dir(filename)) ELSE s2
      s4 == IF s2 = << >> /\ s3 = << >> THEN TrimSuffix(base, Ext(base)) ELSE s3
  IN ReplaceAll(ReplaceAll(ToLower(s4), " ", "-"), Separator, "-")

\* env.go
timeOrDef(val, def) == IF val = 0 THEN def ELSE val

orDef(val, def) == IF val = << >> THEN def ELSE val

(***************************************************************************)
(* The equality law (src/cmp.go)                                           *)
(***************************************************************************)
\* eqPost comparing the creation times as well.
eqPost_withCreated(p1, p2) ==
  IF p1 = << >> /\ p2 = << >> THEN TRUE
  ELSE IF p1 = << >> \/ p2 = << >> THEN FALSE
  ELSE IF p1[1].ID # p2[1].ID THEN FALSE
  ELSE IF p1[1].Slug # p2[1].Slug THEN FALSE
  ELSE IF p1[1].Font # p2[1].Font THEN FALSE
  ELSE IF p1[1].Language # p2[1].Language THEN FALSE
  ELSE IF p1[1].RTL # p2[1].RTL THEN FALSE
  ELSE IF p1[1].Title # p2[1].Title THEN FALSE
  ELSE IF p1[1].Content # p2[1].Content THEN FALSE
  ELSE IF p1[1].Created # p2[1].Created THEN FALSE
  ELSE TRUE

\* eqPost finding a nil first post equal to any post.
eqPost_nilLeft(p1, p2) ==
  IF p1 = << >> THEN TRUE
  ELSE IF p2 = << >> THEN FALSE
  ELSE IF p1[1].ID # p2[1].ID THEN FALSE
  ELSE IF p1[1].Slug # p2[1].Slug THEN FALSE
  ELSE IF p1[1].Font # p2[1].Font THEN FALSE
  ELSE IF p1[1].Language # p2[1].Language THEN FALSE
  ELSE IF p1[1].RTL # p2[1].RTL THEN FALSE
  ELSE IF p1[1].Title # p2[1].Title THEN FALSE
  ELSE IF p1[1].Content # p2[1].Content THEN FALSE
  ELSE TRUE

\* p1 and p2 are pointers to posts.
eqPost(p1, p2) ==
  IF p1 = << >> /\ p2 = << >> THEN TRUE
  ELSE IF p1 = << >> \/ p2 = << >> THEN FALSE
  ELSE IF p1[1].ID # p2[1].ID THEN FALSE
  ELSE IF p1[1].Slug # p2[1].Slug THEN FALSE
  ELSE IF p1[1].Font # p2[1].Font THEN FALSE
  ELSE IF p1[1].Language # p2[1].Language THEN FALSE
  ELSE IF p1[1].RTL # p2[1].RTL THEN FALSE
  ELSE IF p1[1].Title # p2[1].Title THEN FALSE
  ELSE IF p1[1].Content # p2[1].Content THEN FALSE
  ELSE TRUE

\* The post a set of post parameters describes, field by field.
paramsPost(params) ==
  [ID |-> params.ID, Token |-> params.Token, Slug |-> params.Slug,
   Collection |-> IF params.Collection = << >> THEN << >>
                  ELSE <<[Alias |-> params.Collection]>>,
   Title |-> params.Title, Content |-> params.Content, Font |-> params.Font,
   Language |-> params.Language, RTL |-> params.IsRTL,
   Created |-> IF params.Created = << >> THEN 0 ELSE params.Created[1],
   Updated |-> IF params.Updated = << >> THEN 0 ELSE params.Updated[1]]

\* eqParams is called by publish and is not part of the sources at hand: it
\* is the equality law of eqPost between a post and post parameters.
eqParams(post, params) ==
  eqPost(post, IF params = << >> THEN << >> ELSE <<paramsPost(params[1])>>)

(***************************************************************************)
(* The inputs of a run                                                     *)
(***************************************************************************)
sA     == <<"A">>
sa     == <<"a">>
sOld   == <<"o","l","d">>
sX     == <<"x">>
sY     == <<"y">>
sBlog  == <<"b","l","o","g">>
sOther == <<"o","t","h","e","r">>
sNorm  == <<"n","o","r","m">>
sEn    == <<"e","n">>
sTop   == <<"t","o","p">>

\* The language of the site configuration.
siteLanguage == sEn

Path(name, ext) == <<"c", Separator>> \o name \o <<".">> \o ext
md == <<"m","d">>

\* The files a content tree may hold, in the lexical order of their paths,
\* which is the order filepath.Walk visits them in.  fail names the step of
\* the callback that fails for the file, header the frontmatter marker, out
\* the body after normalisation and template execution.
FileList == <<
  [path |-> Path(<<"p","1">>, md), dir |-> FALSE, fail |-> "none", header |-> "toml",
   meta |-> [title |-> StrV(sA)], out |-> sX],
  [path |-> Path(<<"p","2">>, md), dir |-> FALSE, fail |-> "none", header |-> "toml",
   meta |-> [title |-> StrV(sA), pin |-> IntV(2), date |-> StrV(d2020)], out |-> sY],
  [path |-> Path(<<"p","3">>, md), dir |-> FALSE, fail |-> "none", header |-> "toml",
   meta |-> [title |-> StrV(sA), collection |-> StrV(sOther), pin |-> StrV(sTop),
             lastmod |-> TimeV(2)], out |-> sX],
  [path |-> Path(<<"p","4">>, md), dir |-> FALSE, fail |-> "none", header |-> "toml",
   meta |-> [title |-> StrV(sA), draft |-> BoolV(TRUE)], out |-> sX],
  [path |-> Path(<<"p","5">>, md), dir |-> FALSE, fail |-> "none", header |-> "toml",
   meta |-> [slug |-> StrV(sA), title |-> IntV(7)], out |-> sX],
  [path |-> Path(<<"p","6">>, md), dir |-> FALSE, fail |-> "none", header |-> "toml",
   meta |-> [title |-> StrV(sA)], out |-> << >>],
  [path |-> Path(<<"p","7">>, md), dir |-> FALSE, fail |-> "none", header |-> "yaml",
   meta |-> [title |-> StrV(sA)], out |-> sX],
  [path |-> Path(<<"p","8">>, md), dir |-> FALSE, fail |-> "open", header |-> "toml",
   meta |-> [title |-> StrV(sA)], out |-> sX],
  [path |-> Path(<<"p","9">>, <<"t","x","t">>), dir |-> FALSE, fail |-> "none",
   header |-> "toml", meta |-> [title |-> StrV(sA)], out |-> sX],
  [path |-> Path(<<"p","a">>, md), dir |-> FALSE, fail |-> "none", header |-> "toml",
   meta |-> [title |-> StrV(sA), pin |-> IntV(1)], out |-> sY],
  [path |-> Path(<<"p","b">>, md), dir |-> FALSE, fail |-> "none", header |-> "toml",
   meta |-> [title |-> StrV(sA), collection |-> StrV(<< >>)], out |-> sY] >>

\* The files of the content trees of a run of the command, and the files of
\* the trees where pages without a collection of their own come after a page
\* that has one.
CommonFiles == 1..(Len(FileList) - 2)
CollectionFiles == {1, 3, 9, Len(FileList) - 1, Len(FileList)}

\* The posts the remote service may list.  A post's identifier is its
\* position in the list, so identifiers are unique and not empty.
PostList == <<
  [ID |-> 1, Token |-> 11, Slug |-> sa, Collection |-> <<[Alias |-> sBlog]>>,
   Title |-> sA, Content |-> sX, Font |-> sNorm, Language |-> <<sEn>>,
   RTL |-> <<FALSE>>, Created |-> 1, Updated |-> 1],
  [ID |-> 2, Token |-> 12, Slug |-> sa, Collection |-> <<[Alias |-> sBlog]>>,
   Title |-> sA, Content |-> sY, Font |-> sNorm, Language |-> <<sEn>>,
   RTL |-> <<FALSE>>, Created |-> 2, Updated |-> 2],
  [ID |-> 3, Token |-> 13, Slug |-> sa, Collection |-> <<[Alias |-> sOther]>>,
   Title |-> sA, Content |-> sX, Font |-> sNorm, Language |-> <<sEn>>,
   RTL |-> <<FALSE>>, Created |-> 1, Updated |-> 2],
  [ID |-> 4, Token |-> 14, Slug |-> sa, Collection |-> << >>,
   Title |-> sA, Content |-> sX, Font |-> sNorm, Language |-> << >>,
   RTL |-> << >>, Created |-> 1, Updated |-> 1],
  [ID |-> 5, Token |-> 15, Slug |-> sOld, Collection |-> <<[Alias |-> sBlog]>>,
   Title |-> sA, Content |-> sX, Font |-> sNorm, Language |-> <<sEn>>,
   RTL |-> <<FALSE>>, Created |-> 1, Updated |-> 1] >>

\* The identifier the service gives the post created for the n-th file.
NewID(n) == 100 + n

RECURSIVE SetToSeq(_)
\* The elements of a set of numbers in increasing order.
SetToSeq(S) ==
  IF S = {} THEN << >>
  ELSE LET m == CHOOSE x \in S : \A y \in S : x <= y
       IN <<m>> \o SetToSeq(S \ {m})

(***************************************************************************)
(* publish (src/publish.go)                                                *)
(***************************************************************************)
VARIABLES
  files,    \* the files of the content tree (indices of FileList), in walk order
  remote,   \* the posts the service lists (indices of PostList), in list order
  opts,     \* publishOptions
  pc,       \* where publish is: "start", "walk", "delete", "done"
  posts,    \* the pool: the remote posts no page has matched yet
  next,     \* the index in files of the next file of the walk
  j,        \* the index in posts of the next post of the deletion loop
  calls,    \* the calls made on the client, in order
  classes,  \* what the callback decided for each page, in order
  warned,   \* the identifiers of the posts a "re-run with --delete" line names
  ret,      \* what publish returned: "none" while it runs, "nil", or the error
  prev,     \* the decisions of the dry run this run repeats, if any
  fnArgs,   \* the arguments a pure function is applied to, if any
  fnRes     \* its result, << >> before it is applied; for a traversal, its state

vars == <<files, remote, opts, pc, posts, next, j, calls, classes, warned, ret, prev,
          fnArgs, fnRes>>
fnVars == <<fnArgs, fnRes>>

File(n) == FileList[files[n]]

\* The selection of WalkPages: markdown files that are not directories.
IsPage(f) ==
  LET ext == Ext(f.path)
  IN ~(ext # <<".","m","d">> /\ ext # <<".","m","a","r","k","d","o","w","n">>)
     /\ ~f.dir

postCollection(post) ==
  IF post.Collection # << >> THEN post.Collection[1].Alias ELSE << >>

\* matchIndex taking the last post with the slug and the collection.
matchIndex_last(pool, slug, collection) ==
  LET hits == {i \in 1..Len(pool) :
                 slug = pool[i].Slug /\ collection = postCollection(pool[i])}
  IN IF hits = {} THEN 0 ELSE CHOOSE i \in hits : \A k \in hits : i >= k

\* matchIndex comparing the slugs only.
matchIndex_slugOnly(pool, slug, collection) ==
  LET hits == {i \in 1..Len(pool) : slug = pool[i].Slug}
  IN IF hits = {} THEN 0 ELSE CHOOSE i \in hits : \A k \in hits : i <= k

\* The index of the first post of the pool with the slug and the collection,
\* 0 when there is none.
matchIndex(pool, slug, collection) ==
  LET hits == {i \in 1..Len(pool) :
                 slug = pool[i].Slug /\ collection = postCollection(pool[i])}
  IN IF hits = {} THEN 0 ELSE CHOOSE i \in hits : \A k \in hits : i <= k

\* removeAt leaving the matched post in the pool.
removeAt_none(pool, i) == pool

\* removeAt dropping the post before the matched one.
removeAt_offByOne(pool, i) ==
  IF i = 1 THEN SubSeq(pool, 2, Len(pool))
  ELSE SubSeq(pool, 1, i - 2) \o SubSeq(pool, i, Len(pool))

\* append(posts[:i], posts[i+1:]...)
removeAt(pool, i) == SubSeq(pool, 1, i - 1) \o SubSeq(pool, i + 1, Len(pool))

\* pageCollection without the default of the options.
pageCollection_noDefault(o, meta) == GetString(meta, "collection")

\* The collection of a page: its own, or else the default of the options.
pageCollection(o, meta) ==
  IF GetString(meta, "collection") # << >>
  THEN GetString(meta, "collection") ELSE o.collection

\* skipReason without the return for drafts.
skipReason_noDraft(f) ==
  IF f.fail = "open" THEN "open"
  ELSE IF f.fail = "decode" THEN "decode"
  ELSE IF f.header = "yaml" THEN "yaml"
  ELSE IF GetString(f.meta, "title") = << >> THEN "title"
  ELSE IF f.fail = "read" THEN "read"
  ELSE IF f.fail = "tmpl" THEN "tmpl"
  ELSE IF Len(f.out) = 0 THEN "body"
  ELSE "none"

\* The early return of the callback a file takes, "none" when it takes none.
skipReason(f) ==
  IF f.fail = "open" THEN "open"
  ELSE IF f.fail = "decode" THEN "decode"
  ELSE IF f.header = "yaml" THEN "yaml"
  ELSE IF GetBool(f.meta, "draft") THEN "draft"
  ELSE IF GetString(f.meta, "title") = << >> THEN "title"
  ELSE IF f.fail = "read" THEN "read"
  ELSE IF f.fail = "tmpl" THEN "tmpl"
  ELSE IF Len(f.out) = 0 THEN "body"
  ELSE "none"

\* pageParams sending the creation time even when it is the zero time.
pageParams_zeroCreated(o, f, existingPost) ==
  LET created == timeOrDef(GetTime(f.meta, "publishDate"), GetTime(f.meta, "date"))
      lang == IF GetString(f.meta, "lang") = << >>
              THEN siteLanguage ELSE GetString(f.meta, "lang")
  IN [ID |-> IF existingPost # << >> THEN existingPost[1].ID ELSE 0,
      Token |-> IF existingPost # << >> THEN existingPost[1].Token ELSE 0,
      Content |-> f.out,
      Created |-> <<created>>,
      Font |-> orDef(GetString(f.meta, "font"), sNorm),
      IsRTL |-> <<GetBool(f.meta, "rtl")>>,
      Language |-> <<lang>>,
      Slug |-> Slug(f.path, f.meta),
      Title |-> GetString(f.meta, "title"),
      Updated |-> <<timeOrDef(GetTime(f.meta, "lastmod"), created)>>,
      Collection |-> pageCollection(o, f.meta)]

\* The parameters the callback builds for a page and the post it matched.
pageParams(o, f, existingPost) ==
  LET created == timeOrDef(GetTime(f.meta, "publishDate"), GetTime(f.meta, "date"))
      lang == IF GetString(f.meta, "lang") = << >>
              THEN siteLanguage ELSE GetString(f.meta, "lang")
  IN [ID |-> IF existingPost # << >> THEN existingPost[1].ID ELSE 0,
      Token |-> IF existingPost # << >> THEN existingPost[1].Token ELSE 0,
      Content |-> f.out,
      Created |-> IF created = 0 THEN << >> ELSE <<created>>,
      Font |-> orDef(GetString(f.meta, "font"), sNorm),
      IsRTL |-> <<GetBool(f.meta, "rtl")>>,
      Language |-> <<lang>>,
      Slug |-> Slug(f.path, f.meta),
      Title |-> GetString(f.meta, "title"),
      Updated |-> <<timeOrDef(GetTime(f.meta, "lastmod"), created)>>,
      Collection |-> pageCollection(o, f.meta)]

\* skipUpdate deciding to skip in a live run only.
skipUpdate_liveOnly(o, existingPost, params) ==
  /\ existingPost # << >>
  /\ eqParams(existingPost, <<params>>)
  /\ ~o.force
  /\ ~o.dryRun

\* skipUpdate without regard for -f.
skipUpdate_noForce(o, existingPost, params) ==
  /\ existingPost # << >>
  /\ eqParams(existingPost, <<params>>)

\* Whether the callback leaves a matched post alone.
skipUpdate(o, existingPost, params) ==
  /\ existingPost # << >>
  /\ eqParams(existingPost, <<params>>)
  /\ ~o.force

Call(op, n, id, tok, col, pos, params, ok) ==
  [op |-> op, file |-> n, id |-> id, tok |-> tok, col |-> col, pos |-> pos,
   params |-> params, ok |-> ok]

\* pageCalls going on to unpin and pin after a failed write.
pageCalls_noReturn(o, n, f, params, skip, werr, uerr, perr) ==
  LET postID == params.ID
      write == ~o.dryRun /\ ~skip
      writeCall ==
        IF ~write THEN << >>
        ELSE IF postID = 0
        THEN <<Call("CreatePost", n, 0, 0, params.Collection, 0, <<params>>, ~werr)>>
        ELSE <<Call("UpdatePost", n, postID, params.Token, params.Collection, 0,
                    <<[params EXCEPT !.Created = << >>]>>, ~werr)>>
      newID == IF ~write THEN postID
               ELSE IF postID = 0 THEN NewID(files[n]) ELSE postID
      unpin == IF ~o.dryRun
               THEN <<Call("UnpinPost", n, newID, 0, params.Collection, 0, << >>, ~uerr)>>
               ELSE << >>
      pin == get(f.meta, "pin")
      pinCall == IF pin[2] /\ pin[1].t = "int64" /\ ~o.dryRun
                 THEN <<Call("PinPost", n, newID, 0, params.Collection, pin[1].n,
                             << >>, ~perr)>>
                 ELSE << >>
  IN writeCall \o unpin \o pinCall

\* pageCalls pinning before it unpins.
pageCalls_pinFirst(o, n, f, params, skip, werr, uerr, perr) ==
  LET postID == params.ID
      write == ~o.dryRun /\ ~skip
      writeCall ==
        IF ~write THEN << >>
        ELSE IF postID = 0
        THEN <<Call("CreatePost", n, 0, 0, params.Collection, 0, <<params>>, ~werr)>>
        ELSE <<Call("UpdatePost", n, postID, params.Token, params.Collection, 0,
                    <<[params EXCEPT !.Created = << >>]>>, ~werr)>>
      newID == IF ~write THEN postID
               ELSE IF postID = 0 THEN NewID(files[n]) ELSE postID
      unpin == IF ~o.dryRun
               THEN <<Call("UnpinPost", n, newID, 0, params.Collection, 0, << >>, ~uerr)>>
               ELSE << >>
      pin == get(f.meta, "pin")
      pinCall == IF pin[2] /\ pin[1].t = "int64" /\ ~o.dryRun
                 THEN <<Call("PinPost", n, newID, 0, params.Collection, pin[1].n,
                             << >>, ~perr)>>
                 ELSE << >>
  IN IF write /\ werr THEN writeCall
     ELSE writeCall \o pinCall \o unpin

\* pageCalls with the pin call made whatever --dry-run says.
pageCalls_pinInDryRun(o, n, f, params, skip, werr, uerr, perr) ==
  LET postID == params.ID
      write == ~o.dryRun /\ ~skip
      writeCall ==
        IF ~write THEN << >>
        ELSE IF postID = 0
        THEN <<Call("CreatePost", n, 0, 0, params.Collection, 0, <<params>>, ~werr)>>
        ELSE <<Call("UpdatePost", n, postID, params.Token, params.Collection, 0,
                    <<[params EXCEPT !.Created = << >>]>>, ~werr)>>
      newID == IF ~write THEN postID
               ELSE IF postID = 0 THEN NewID(files[n]) ELSE postID
      unpin == IF ~o.dryRun
               THEN <<Call("UnpinPost", n, newID, 0, params.Collection, 0, << >>, ~uerr)>>
               ELSE << >>
      pin == get(f.meta, "pin")
      pinCall == IF pin[2] /\ pin[1].t = "int64"
                 THEN <<Call("PinPost", n, newID, 0, params.Collection, pin[1].n,
                             << >>, ~perr)>>
                 ELSE << >>
  IN IF write /\ werr THEN writeCall
     ELSE writeCall \o unpin \o pinCall

\* pageCalls returning after a failed unpin.
pageCalls_unpinAborts(o, n, f, params, skip, werr, uerr, perr) ==
  LET postID == params.ID
      write == ~o.dryRun /\ ~skip
      writeCall ==
        IF ~write THEN << >>
        ELSE IF postID = 0
        THEN <<Call("CreatePost", n, 0, 0, params.Collection, 0, <<params>>, ~werr)>>
        ELSE <<Call("UpdatePost", n, postID, params.Token, params.Collection, 0,
                    <<[params EXCEPT !.Created = << >>]>>, ~werr)>>
      newID == IF ~write THEN postID
               ELSE IF postID = 0 THEN NewID(files[n]) ELSE postID
      unpin == IF ~o.dryRun
               THEN <<Call("UnpinPost", n, newID, 0, params.Collection, 0, << >>, ~uerr)>>
               ELSE << >>
      pin == get(f.meta, "pin")
      pinCall == IF pin[2] /\ pin[1].t = "int64" /\ ~o.dryRun /\ ~uerr
                 THEN <<Call("PinPost", n, newID, 0, params.Collection, pin[1].n,
                             << >>, ~perr)>>
                 ELSE << >>
  IN IF write /\ werr THEN writeCall
     ELSE writeCall \o unpin \o pinCall

\* pageCalls sending the creation time with an update as well.
pageCalls_keepCreated(o, n, f, params, skip, werr, uerr, perr) ==
  LET postID == params.ID
      write == ~o.dryRun /\ ~skip
      writeCall ==
        IF ~write THEN << >>
        ELSE IF postID = 0
        THEN <<Call("CreatePost", n, 0, 0, params.Collection, 0, <<params>>, ~werr)>>
        ELSE <<Call("UpdatePost", n, postID, params.Token, params.Collection, 0,
                    <<params>>, ~werr)>>
      newID == IF ~write THEN postID
               ELSE IF postID = 0 THEN NewID(files[n]) ELSE postID
      unpin == IF ~o.dryRun
               THEN <<Call("UnpinPost", n, newID, 0, params.Collection, 0, << >>, ~uerr)>>
               ELSE << >>
      pin == get(f.meta, "pin")
      pinCall == IF pin[2] /\ pin[1].t = "int64" /\ ~o.dryRun
                 THEN <<Call("PinPost", n, newID, 0, params.Collection, pin[1].n,
                             << >>, ~perr)>>
                 ELSE << >>
  IN IF write /\ werr THEN writeCall
     ELSE writeCall \o unpin \o pinCall

\* pageCalls creating no second post with a slug and collection it has
\* already created a post with.
pageCalls_dedup(o, n, f, params, skip, werr, uerr, perr) ==
  LET postID == params.ID
      write == ~o.dryRun /\ ~skip
      dup == \E k \in 1..Len(calls) :
               /\ calls[k].op = "CreatePost"
               /\ calls[k].params[1].Slug = params.Slug
               /\ calls[k].col = params.Collection
      writeCall ==
        IF ~write THEN << >>
        ELSE IF postID = 0
        THEN IF dup THEN << >>
             ELSE <<Call("CreatePost", n, 0, 0, params.Collection, 0, <<params>>, ~werr)>>
        ELSE <<Call("UpdatePost", n, postID, params.Token, params.Collection, 0,
                    <<[params EXCEPT !.Created = << >>]>>, ~werr)>>
      newID == IF ~write THEN postID
               ELSE IF postID = 0 THEN NewID(files[n]) ELSE postID
      unpin == IF ~o.dryRun
               THEN <<Call("UnpinPost", n, newID, 0, params.Collection, 0, << >>, ~uerr)>>
               ELSE << >>
      pin == get(f.meta, "pin")
      pinCall == IF pin[2] /\ pin[1].t = "int64" /\ ~o.dryRun
                 THEN <<Call("PinPost", n, newID, 0, params.Collection, pin[1].n,
                             << >>, ~perr)>>
                 ELSE << >>
  IN IF write /\ werr THEN writeCall
     ELSE writeCall \o unpin \o pinCall

\* The calls the callback makes for an eligible page, in order.  werr, uerr
\* and perr say whether the write, the unpin and the pin fail.
pageCalls(o, n, f, params, skip, werr, uerr, perr) ==
  LET postID == params.ID
      write == ~o.dryRun /\ ~skip
      writeCall ==
        IF ~write THEN << >>
        ELSE IF postID = 0
        THEN <<Call("CreatePost", n, 0, 0, params.Collection, 0, <<params>>, ~werr)>>
        ELSE <<Call("UpdatePost", n, postID, params.Token, params.Collection, 0,
                    <<[params EXCEPT !.Created = << >>]>>, ~werr)>>
      newID == IF ~write THEN postID
               ELSE IF postID = 0 THEN NewID(files[n]) ELSE postID
      unpin == IF ~o.dryRun
               THEN <<Call("UnpinPost", n, newID, 0, params.Collection, 0, << >>, ~uerr)>>
               ELSE << >>
      pin == get(f.meta, "pin")
      pinCall == IF pin[2] /\ pin[1].t = "int64" /\ ~o.dryRun
                 THEN <<Call("PinPost", n, newID, 0, params.Collection, pin[1].n,
                             << >>, ~perr)>>
                 ELSE << >>
  IN IF write /\ werr THEN writeCall
     ELSE writeCall \o unpin \o pinCall

Class(n, class, reason, matched, slug, collection) ==
  [file |-> n, class |-> class, reason |-> reason, matched |-> matched,
   slug |-> slug, collection |-> collection]

Init ==
  /\ \E S \in SUBSET CommonFiles :
       Cardinality(S) <= MaxPages /\ files = SetToSeq(S)
  /\ \E S \in SUBSET (1..Len(PostList)) :
       Cardinality(S) <= MaxPosts /\ remote = SetToSeq(S)
  /\ opts \in [del : BOOLEAN, dryRun : BOOLEAN, force : BOOLEAN, collection : {sBlog}]
  /\ pc = "start"
  /\ posts = << >>
  /\ next = 1
  /\ j = 1
  /\ calls = << >>
  /\ classes = << >>
  /\ warned = << >>
  /\ ret = "none"
  /\ prev = << >>
  /\ fnArgs = << >>
  /\ fnRes = << >>

\* The template does not compile: publish returns the error.
TmplError ==
  /\ pc = "start"
  /\ pc' = "done"
  /\ ret' = "error compiling template"
  /\ UNCHANGED <<files, remote, opts, posts, next, j, calls, classes, warned, prev, fnVars>>

\* ListError logging the error and going on with an empty pool.
ListError_goOn ==
  /\ pc = "start"
  /\ pc' = "walk"
  /\ posts' = << >>
  /\ ret' = "error fetching users posts"
  /\ UNCHANGED <<files, remote, opts, next, j, calls, classes, warned, prev, fnVars>>

\* GetUserPosts fails: publish returns the error.
ListError ==
  /\ pc = "start"
  /\ pc' = "done"
  /\ ret' = "error fetching users posts"
  /\ UNCHANGED <<files, remote, opts, posts, next, j, calls, classes, warned, prev, fnVars>>

\* GetUserPosts succeeds: the pool is the listing, and the walk begins.
ListPosts ==
  /\ pc = "start"
  /\ posts' = [i \in 1..Len(remote) |-> PostList[remote[i]]]
  /\ pc' = "walk"
  /\ UNCHANGED <<files, remote, opts, next, j, calls, classes, warned, ret, prev, fnVars>>

\* WalkPages passes over a file that is not a page.
WalkSkip ==
  /\ pc = "walk"
  /\ next <= Len(files)
  /\ ~IsPage(File(next))
  /\ next' = next + 1
  /\ UNCHANGED <<files, remote, opts, pc, posts, j, calls, classes, warned, ret, prev, fnVars>>

\* The callback of the walk, for the next page.
WalkFn ==
  /\ pc = "walk"
  /\ next <= Len(files)
  /\ IsPage(File(next))
  /\ LET f == File(next)
         why == skipReason(f)
         collection == pageCollection(opts, f.meta)
         slug == Slug(f.path, f.meta)
         i == matchIndex(posts, slug, collection)
         existingPost == IF i = 0 THEN << >> ELSE <<posts[i]>>
         params == pageParams(opts, f, existingPost)
         skip == skipUpdate(opts, existingPost, params)
         class == IF existingPost = << >> THEN "Create"
                  ELSE IF skip THEN "Skip" ELSE "Update"
     IN IF why # "none"
        THEN /\ classes' = Append(classes, Class(next, "ineligible", why, 0, << >>, << >>))
             /\ UNCHANGED <<posts, calls>>
        ELSE /\ posts' = IF i = 0 THEN posts ELSE removeAt(posts, i)
             /\ classes' = Append(classes, Class(next, class, "none", params.ID,
                                                 slug, collection))
             /\ \E werr, uerr, perr \in BOOLEAN :
                  calls' = calls \o pageCalls(opts, next, f, params, skip,
                                              werr, uerr, perr)
  /\ next' = next + 1
  /\ UNCHANGED <<files, remote, opts, pc, j, warned, ret, prev, fnVars>>

\* The walk is over: the deletion loop begins.
WalkDone ==
  /\ pc = "walk"
  /\ next > Len(files)
  /\ pc' = "delete"
  /\ j' = 1
  /\ UNCHANGED <<files, remote, opts, posts, next, calls, classes, warned, ret, prev, fnVars>>

\* deleteCalls without regard for --delete.
deleteCalls_always(o, post, derr) ==
  IF ~o.dryRun
  THEN <<Call("DeletePost", 0, post.ID, post.Token, << >>, 0, << >>, ~derr)>>
  ELSE << >>

\* The calls one iteration of the deletion loop makes for a post; derr says
\* whether DeletePost fails.
deleteCalls(o, post, derr) ==
  IF o.del /\ ~o.dryRun
  THEN <<Call("DeletePost", 0, post.ID, post.Token, << >>, 0, << >>, ~derr)>>
  ELSE << >>

\* The posts one iteration of the deletion loop warns about.
deleteWarns(o, post) == IF o.del THEN << >> ELSE <<post.ID>>

\* One iteration of the deletion loop.
DeleteStep ==
  /\ pc = "delete"
  /\ j <= Len(posts)
  /\ \E derr \in BOOLEAN : calls' = calls \o deleteCalls(opts, posts[j], derr)
  /\ warned' = warned \o deleteWarns(opts, posts[j])
  /\ j' = j + 1
  /\ UNCHANGED <<files, remote, opts, pc, posts, next, classes, ret, prev, fnVars>>

\* The deletion loop is over: publish returns nil.
Return ==
  /\ pc = "delete"
  /\ j > Len(posts)
  /\ pc' = "done"
  /\ ret' = "nil"
  /\ UNCHANGED <<files, remote, opts, posts, next, j, calls, classes, warned, prev, fnVars>>

\* The command is run again without --dry-run on the same content tree,
\* against the same listing and with the other options unchanged.
Rerun ==
  /\ pc = "done"
  /\ ret = "nil"
  /\ opts.dryRun
  /\ prev = << >>
  /\ prev' = <<[classes |-> classes, posts |-> posts, warned |-> warned]>>
  /\ opts' = [opts EXCEPT !.dryRun = FALSE]
  /\ pc' = "start"
  /\ posts' = << >>
  /\ next' = 1
  /\ j' = 1
  /\ calls' = << >>
  /\ classes' = << >>
  /\ warned' = << >>
  /\ ret' = "none"
  /\ UNCHANGED <<files, remote, fnVars>>

Next ==
  \/ TmplError
  \/ ListError
  \/ ListPosts
  \/ WalkSkip
  \/ WalkFn
  \/ WalkDone
  \/ DeleteStep
  \/ Return
  \/ Rerun

Spec == Init /\ [][Next]_vars

\* One invocation of publish: the command is not run a second time.
NextRun ==
  \/ TmplError
  \/ ListError
  \/ ListPosts
  \/ WalkSkip
  \/ WalkFn
  \/ WalkDone
  \/ DeleteStep
  \/ Return

SpecRun == Init /\ [][NextRun]_vars

\* One invocation of publish on a tree of CollectionFiles.
InitCollection ==
  /\ \E S \in SUBSET CollectionFiles :
       Cardinality(S) <= MaxPages /\ files = SetToSeq(S)
  /\ \E S \in SUBSET (1..Len(PostList)) :
       Cardinality(S) <= MaxPosts /\ remote = SetToSeq(S)
  /\ opts \in [del : BOOLEAN, dryRun : BOOLEAN, force : BOOLEAN, collection : {sBlog}]
  /\ pc = "start"
  /\ posts = << >>
  /\ next = 1
  /\ j = 1
  /\ calls = << >>
  /\ classes = << >>
  /\ warned = << >>
  /\ ret = "none"
  /\ prev = << >>
  /\ fnArgs = << >>
  /\ fnRes = << >>

SpecCollection == InitCollection /\ [][NextRun]_vars

(***************************************************************************)
(* Properties of publish                                                   *)
(***************************************************************************)
WriteOps == {"CreatePost", "UpdatePost", "DeletePost", "PinPost", "UnpinPost"}

\* The positions in calls of the calls of an operation for the n-th file.
CallsFor(op, n) == {k \in 1..Len(calls) : calls[k].op = op /\ calls[k].file = n}

DeletedIDs == {calls[k].id : k \in {m \in 1..Len(calls) : calls[m].op = "DeletePost"}}

PoolIDs == {posts[k].ID : k \in 1..Len(posts)}

Live == ~opts.dryRun

Returned == pc = "done" /\ ret = "nil"

\* The (slug, collection) key of a file and of a post.
FileKey(f) == <<Slug(f.path, f.meta), pageCollection(opts, f.meta)>>
PostKey(post) == <<post.Slug, postCollection(post)>>

\* The files the callback has skipped for a missing or invalid title or for
\* an empty body.
SkippedNoRender ==
  {classes[c].file : c \in {m \in 1..Len(classes) : classes[m].reason \in {"title", "body"}}}

\* C1: with deletion enabled, a remote post whose (slug, collection) key is
\* the key of a page that was skipped for a missing title or an empty body is
\* never passed to DeletePost.
C1_SkippedPageKeepsPost ==
  \A id \in DeletedIDs :
    \A n \in SkippedNoRender : FileKey(File(n)) # PostKey(PostList[id])

\* A step of the callback for an eligible page takes the first post of the
\* pool with the page's slug and collection, if there is one, and no other.
C2_MatchStep ==
  (pc = "walk" /\ next <= Len(files) /\ Len(classes') = Len(classes) + 1
   /\ classes'[Len(classes')].class # "ineligible")
  => LET e == classes'[Len(classes')]
         same(k) == PostKey(posts[k]) = <<e.slug, e.collection>>
     IN IF \E k \in 1..Len(posts) : same(k)
        THEN \E k \in 1..Len(posts) :
               /\ same(k)
               /\ \A m \in 1..(k - 1) : ~same(m)
               /\ e.matched = posts[k].ID
               /\ Len(posts') = Len(posts) - 1
               /\ \A m \in 1..Len(posts') :
                    posts'[m] = IF m < k THEN posts[m] ELSE posts[m + 1]
        ELSE e.matched = 0 /\ posts' = posts

\* A matched post is not in the pool, is not deleted and is matched once.
C2_MatchedOnce ==
  \A c \in 1..Len(classes) :
    classes[c].matched # 0 =>
      /\ classes[c].matched \notin PoolIDs
      /\ classes[c].matched \notin DeletedIDs
      /\ \A d \in 1..Len(classes) :
           classes[d].matched = classes[c].matched => d = c

\* C2: a page is matched to the first post of the pool that has its slug and
\* collection, the matched post leaves the pool in the same step, no two pages
\* are matched to the same post, and a matched post is never deleted.
C2_OneToOneMatching == [][C2_MatchStep]_vars /\ []C2_MatchedOnce

\* A page was matched and a later page with the same key was not, while
\* another post stayed in the pool until the deletion loop.
C2_Witness ==
  /\ Returned
  /\ Len(classes) = 2
  /\ classes[1].matched # 0
  /\ classes[2].class = "Create"
  /\ classes[2].slug = classes[1].slug
  /\ classes[2].collection = classes[1].collection
  /\ DeletedIDs # {}

\* C3: with --dry-run, publish makes no CreatePost, UpdatePost, DeletePost,
\* PinPost or UnpinPost call.
C3_DryRunMakesNoWrites ==
  opts.dryRun => \A k \in 1..Len(calls) : calls[k].op \notin WriteOps

\* A dry run with --delete has returned after it classified a page Update,
\* a page with an integer pin among its pages, and left a post in the pool.
C3_Witness ==
  /\ opts.dryRun
  /\ opts.del
  /\ Returned
  /\ \E c \in 1..Len(classes) : classes[c].class = "Update"
  /\ \E c \in 1..Len(classes) :
       classes[c].class # "ineligible" /\ "pin" \in DOMAIN File(classes[c].file).meta
  /\ posts # << >>

AllCallsOK == \A k \in 1..Len(calls) : calls[k].ok

\* What the callback decided for a page, without the calls it led to.
Decision(e) == <<e.file, e.class, e.reason, e.matched>>

\* C4: a live run in which every call succeeds, on the pages, the listing and
\* the --delete and -f options of a dry run, decides for every page what the
\* dry run decided, takes the same posts from the pool and ends with the same
\* posts left in it.
C4_DryRunDecidesAsLive ==
  (prev # << >> /\ Returned /\ AllCallsOK) =>
    /\ Len(classes) = Len(prev[1].classes)
    /\ \A c \in 1..Len(classes) : Decision(classes[c]) = Decision(prev[1].classes[c])
    /\ posts = prev[1].posts

\* A live run after a dry run of two pages, one updated and one left alone
\* or created, with a post left in the pool.
C4_Witness ==
  /\ prev # << >>
  /\ Returned
  /\ AllCallsOK
  /\ \E c \in 1..Len(classes) : classes[c].class = "Update"
  /\ \E c \in 1..Len(classes) : classes[c].class \in {"Skip", "Create"}
  /\ posts # << >>

\* C5: in a live run an eligible page that matched no post leads to exactly
\* one CreatePost call and no UpdatePost call; one that matched a post equal
\* to it, without -f, leads to neither; one that matched a post that differs,
\* or any post with -f, leads to exactly one UpdatePost call, with the
\* identifier and the token of the matched post, and no CreatePost call.
C5_OneWritePerPage ==
  Live =>
    \A c \in 1..Len(classes) :
      LET e == classes[c]
          creates == CallsFor("CreatePost", e.file)
          updates == CallsFor("UpdatePost", e.file)
          post == PostList[e.matched]
          equal == eqParams(<<post>>, <<pageParams(opts, File(e.file), <<post>>)>>)
      IN e.class # "ineligible" =>
           IF e.matched = 0
           THEN Cardinality(creates) = 1 /\ updates = {}
           ELSE IF ~opts.force /\ equal
           THEN creates = {} /\ updates = {}
           ELSE /\ creates = {}
                /\ Cardinality(updates) = 1
                /\ \A k \in updates : calls[k].id = post.ID /\ calls[k].tok = post.Token

\* A live run has created a post for one page and updated a post for another.
C5_Witness ==
  /\ Live
  /\ Returned
  /\ \E c \in 1..Len(classes) :
       classes[c].class = "Create" /\ CallsFor("CreatePost", classes[c].file) # {}
  /\ \E c \in 1..Len(classes) :
       classes[c].class = "Update" /\ CallsFor("UpdatePost", classes[c].file) # {}

\* The positions in files of the pages of the content tree.
Pages == {n \in 1..Len(files) : IsPage(File(n))}

AllPagesProcessed ==
  /\ next > Len(files)
  /\ {classes[c].file : c \in 1..Len(classes)} = Pages
  /\ Len(classes) = Cardinality(Pages)

DeleteCalls == {k \in 1..Len(calls) : calls[k].op = "DeletePost"}

\* C7: no post is deleted or warned about before every page has been
\* processed.  A live run with --delete calls DeletePost exactly once for each
\* post left in the pool and for no other post; a run without --delete never
\* calls DeletePost and warns about each post left in the pool, so that on an
\* empty content tree it makes no call at all.
C7_DeletionPass ==
  /\ (DeleteCalls # {} \/ warned # << >>) =>
       (pc \in {"delete", "done"} /\ AllPagesProcessed)
  /\ Returned =>
       /\ (opts.del /\ Live) =>
            /\ \A i \in 1..Len(posts) :
                 Cardinality({k \in DeleteCalls : calls[k].id = posts[i].ID}) = 1
            /\ DeletedIDs \subseteq PoolIDs
            /\ warned = << >>
       /\ ~opts.del =>
            /\ DeleteCalls = {}
            /\ warned = [i \in 1..Len(posts) |-> posts[i].ID]
       /\ (~opts.del /\ files = << >>) => calls = << >>

\* A live run with --delete has deleted the one post no page matched, after
\* another post was matched.
C7_Witness ==
  /\ Returned
  /\ opts.del
  /\ Live
  /\ posts # << >>
  /\ DeletedIDs = PoolIDs
  /\ \E c \in 1..Len(classes) : classes[c].matched # 0

\* C8: when GetUserPosts fails publish returns the error at once: no page
\* has been opened and no call has been made.
C8_ListErrorAborts ==
  ret = "error fetching users posts" =>
    /\ pc = "done"
    /\ next = 1
    /\ classes = << >>
    /\ calls = << >>
    /\ warned = << >>

\* The listing failed in a live run with --delete that had a page to publish
\* and posts to list.
C8_Witness ==
  /\ ret = "error fetching users posts"
  /\ Live
  /\ opts.del
  /\ remote # << >>
  /\ \E n \in Pages : skipReason(File(n)) = "none"

FailedWrites ==
  {k \in 1..Len(calls) : calls[k].op \in {"CreatePost", "UpdatePost"} /\ ~calls[k].ok}

\* C9: after a failed CreatePost or UpdatePost the page is neither unpinned
\* nor pinned; the run goes on whatever call failed, and when publish returns
\* it returns nil, every page has been processed and, in a live run with
\* --delete, DeletePost has been called for every post left in the pool.
C9_WriteFailuresNotFatal ==
  /\ \A k \in FailedWrites :
       CallsFor("UnpinPost", calls[k].file) = {} /\ CallsFor("PinPost", calls[k].file) = {}
  /\ (pc # "done" /\ ~AllCallsOK) => (pc \in {"walk", "delete"} /\ ret = "none")
  /\ (pc = "done" /\ ~AllCallsOK) =>
       /\ ret = "nil"
       /\ AllPagesProcessed
       /\ j = Len(posts) + 1
       /\ (opts.del /\ Live) => [i \in 1..Len(posts) |-> posts[i].ID] =
                        [i \in 1..Len(posts) |->
                           calls[Len(calls) - Len(posts) + i].id]

\* publish has returned nil after the write for the first page failed, a
\* second page was published, and the first of two DeletePost calls failed.
C9_Witness ==
  /\ Returned
  /\ \E k \in FailedWrites : calls[k].file = 1
  /\ CallsFor("UnpinPost", 2) # {}
  /\ \E k \in DeleteCalls : ~calls[k].ok /\ k + 1 \in DeleteCalls

\* C10: in a live run, a page whose create or update did not fail is
\* unpinned exactly once, with the identifier of its post; it is pinned
\* exactly when its frontmatter holds an integer pin, at that position, and
\* after it was unpinned.
C10_UnpinThenPin ==
  Live =>
    \A c \in 1..Len(classes) :
      LET e == classes[c]
          id == IF e.matched # 0 THEN e.matched ELSE NewID(files[e.file])
          unpins == CallsFor("UnpinPost", e.file)
          pins == CallsFor("PinPost", e.file)
          meta == File(e.file).meta
          intPin == "pin" \in DOMAIN meta /\ meta["pin"].t = "int64"
      IN (e.class # "ineligible" /\ \A k \in FailedWrites : calls[k].file # e.file) =>
           /\ Cardinality(unpins) = 1
           /\ \A k \in unpins : calls[k].id = id /\ calls[k].col = e.collection
           /\ pins # {} <=> intPin
           /\ Cardinality(pins) <= 1
           /\ \A k \in pins :
                /\ calls[k].id = id
                /\ calls[k].pos = meta["pin"].n
                /\ \A u \in unpins : u < k

\* A live run has unpinned and pinned a created page with an integer pin and
\* only unpinned a page whose pin is a string.
C10_Witness ==
  /\ Live
  /\ \E c \in 1..Len(classes) :
       /\ classes[c].class = "Create"
       /\ CallsFor("PinPost", classes[c].file) # {}
  /\ \E c \in 1..Len(classes) :
       /\ "pin" \in DOMAIN File(classes[c].file).meta
       /\ CallsFor("UnpinPost", classes[c].file) # {}
       /\ CallsFor("PinPost", classes[c].file) = {}

FailedPins ==
  {k \in 1..Len(calls) : calls[k].op \in {"UnpinPost", "PinPost"} /\ ~calls[k].ok}

\* C11: a failed UnpinPost or PinPost does not end the run.  After a failed
\* UnpinPost the page is still pinned when its frontmatter holds an integer
\* pin; while publish runs after such a failure it has returned nothing, and
\* when it returns it returns nil, every page has been processed and the
\* deletion loop has passed over every post left in the pool, with one
\* DeletePost call for each in a live run with --delete.
C11_PinFailuresNotFatal ==
  /\ \A k \in FailedPins :
       LET meta == File(calls[k].file).meta
       IN (calls[k].op = "UnpinPost" /\ "pin" \in DOMAIN meta /\ meta["pin"].t = "int64")
            => \E m \in CallsFor("PinPost", calls[k].file) :
                 m > k /\ calls[m].pos = meta["pin"].n
  /\ (FailedPins # {} /\ pc # "done") => (pc \in {"walk", "delete"} /\ ret = "none")
  /\ (FailedPins # {} /\ pc = "done") =>
       /\ ret = "nil"
       /\ AllPagesProcessed
       /\ j = Len(posts) + 1
       /\ opts.del => \A i \in 1..Len(posts) : posts[i].ID \in DeletedIDs

\* publish has returned nil after the unpin and the pin of the first page
\* both failed, a second page was published, and a post was deleted.
C11_Witness ==
  /\ Returned
  /\ \E k \in FailedPins : calls[k].op = "UnpinPost" /\ calls[k].file = 1
  /\ \E k \in FailedPins : calls[k].op = "PinPost" /\ calls[k].file = 1
  /\ CallsFor("UnpinPost", 2) # {}
  /\ DeletedIDs # {}

\* The creation time the callback derives for a file.
DerivedCreated(f) ==
  LET publishDate == GetTime(f.meta, "publishDate")
      date == GetTime(f.meta, "date")
  IN IF publishDate # 0 THEN <<publishDate>> ELSE IF date # 0 THEN <<date>> ELSE << >>

\* C13: every UpdatePost call carries a nil Created parameter, whatever
\* creation time the frontmatter gives, and every CreatePost call carries the
\* creation time derived from the frontmatter.
C13_UpdateWithoutCreated ==
  \A k \in 1..Len(calls) :
    /\ calls[k].op = "UpdatePost" => calls[k].params[1].Created = << >>
    /\ calls[k].op = "CreatePost" =>
         calls[k].params[1].Created = DerivedCreated(File(calls[k].file))

\* A post was updated from a page whose frontmatter gives a creation time.
C13_Witness ==
  \E k \in 1..Len(calls) :
    /\ calls[k].op = "UpdatePost"
    /\ DerivedCreated(File(calls[k].file)) # << >>
    /\ calls[k].ok

\* The keys of the listed posts.
RemoteKeys == {PostKey(PostList[remote[i]]) : i \in 1..Len(remote)}

\* The identifiers of the listed posts with a key.
RemoteWithKey(key) ==
  {remote[i] : i \in {m \in 1..Len(remote) : PostKey(PostList[remote[m]]) = key}}

\* The identifiers of the posts with a key that pages were matched to.
MatchedWithKey(key) ==
  {classes[c].matched :
     c \in {d \in 1..Len(classes) :
              classes[d].matched # 0 /\ PostKey(PostList[classes[d].matched]) = key}}

\* The eligible pages with a key that the callback has processed.
EligibleWithKey(key) ==
  {c \in 1..Len(classes) :
     classes[c].class # "ineligible" /\ <<classes[c].slug, classes[c].collection>> = key}

Min(a, b) == IF a <= b THEN a ELSE b

\* The listing succeeded and the run has not failed.
Listed == pc \in {"walk", "delete"} \/ Returned

\* C14 as claimed: of the listed posts that share a key, at most one is
\* matched to a page, however many pages have the key.
C14_AtMostOneMatched ==
  \A key \in RemoteKeys : Cardinality(MatchedWithKey(key)) <= 1

\* C14: each eligible page is matched to at most one of the posts of its key
\* and no post to two pages: once N eligible pages of a key have been
\* processed, with M listed posts of the key, exactly the smaller of N and M
\* of these posts are matched; the others are in the pool, and a live run
\* with --delete that returns has deleted them.
C14_OneMatchPerPage ==
  Listed =>
    \A key \in RemoteKeys :
      /\ Cardinality(MatchedWithKey(key)) =
           Min(Cardinality(EligibleWithKey(key)), Cardinality(RemoteWithKey(key)))
      /\ RemoteWithKey(key) \ MatchedWithKey(key) \subseteq PoolIDs
      /\ (Returned /\ opts.del /\ Live) =>
           RemoteWithKey(key) \ MatchedWithKey(key) \subseteq DeletedIDs

\* Two pages of one key were matched to the two listed posts of the key.
C14_Witness ==
  /\ Returned
  /\ Len(classes) = 2
  /\ classes[1].matched # 0
  /\ classes[2].matched # 0
  /\ classes[1].matched # classes[2].matched
  /\ PostKey(PostList[classes[1].matched]) = PostKey(PostList[classes[2].matched])

\* The key of an eligible page the callback has processed.
ClassKey(e) == <<e.slug, e.collection>>

\* C15: of two eligible pages with the same slug and collection, when no
\* listed post has that key both are classified Create, and in a live run
\* CreatePost is called once for each; when exactly one listed post has that
\* key the page processed second matches no post and is classified Create.
C15_DuplicatePagesCreate ==
  \A c, d \in 1..Len(classes) :
    (c < d /\ classes[c].class # "ineligible" /\ classes[d].class # "ineligible"
     /\ ClassKey(classes[c]) = ClassKey(classes[d])) =>
      LET M == Cardinality(RemoteWithKey(ClassKey(classes[c])))
      IN /\ M = 0 =>
              /\ classes[c].class = "Create"
              /\ classes[d].class = "Create"
              /\ Live => /\ Cardinality(CallsFor("CreatePost", classes[c].file)) = 1
                         /\ Cardinality(CallsFor("CreatePost", classes[d].file)) = 1
         /\ M = 1 => classes[d].class = "Create" /\ classes[d].matched = 0

\* A live run has created two posts for two pages of one key that no listed
\* post has, while it listed a post of another key.
C15_Witness ==
  /\ Live
  /\ Returned
  /\ remote # << >>
  /\ Len(classes) = 2
  /\ classes[1].class = "Create"
  /\ classes[2].class = "Create"
  /\ ClassKey(classes[1]) = ClassKey(classes[2])
  /\ CallsFor("CreatePost", 1) # {}
  /\ CallsFor("CreatePost", 2) # {}

\* Two eligible pages c and d of one key were processed in this order, and
\* exactly one listed post has the key.
DuplicatePair(c, d) ==
  /\ c < d
  /\ classes[c].class # "ineligible"
  /\ classes[d].class # "ineligible"
  /\ ClassKey(classes[c]) = ClassKey(classes[d])
  /\ Cardinality(RemoteWithKey(ClassKey(classes[c]))) = 1

\* C16 as claimed: of two eligible pages of one key that exactly one listed
\* post has, the page processed last is the one matched to the post.
C16_LastPageWins ==
  \A c, d \in 1..Len(classes) :
    DuplicatePair(c, d) => classes[d].matched \in RemoteWithKey(ClassKey(classes[d]))

\* C16: of two eligible pages of one key that exactly one listed post has,
\* the page processed first is the one matched to the post, and the page
\* processed last is matched to no post.
C16_FirstPageWins ==
  \A c, d \in 1..Len(classes) :
    DuplicatePair(c, d) =>
      /\ classes[c].matched \in RemoteWithKey(ClassKey(classes[c]))
      /\ classes[d].matched = 0

\* Two pages of one key were processed against a listing with one post of
\* the key and one post of another key.
C16_Witness ==
  /\ Returned
  /\ Len(remote) = 2
  /\ \E c, d \in 1..Len(classes) : DuplicatePair(c, d) /\ classes[c].matched # 0

\* The content tree has pages and all of them are drafts.
DraftOnly ==
  /\ \E n \in 1..Len(files) : GetBool(File(n).meta, "draft") /\ IsPage(File(n))
  /\ \A n \in 1..Len(files) : GetBool(File(n).meta, "draft") \/ ~IsPage(File(n))

RemoteIDs == {remote[i] : i \in 1..Len(remote)}

\* C17 as claimed: for a content tree whose only pages are drafts publish
\* makes no create, update, delete, pin or unpin call, whatever the listed
\* posts and the options are.
C17_DraftOnlyNoCalls ==
  DraftOnly => \A k \in 1..Len(calls) : calls[k].op \notin WriteOps

\* C17: no create, update, pin or unpin call is made for a draft page and no
\* post is matched to it, whatever the listed posts and the options are.  For
\* a content tree whose only pages are drafts publish makes no call but the
\* DeletePost calls of a live run with --delete, which deletes every listed
\* post.
C17_DraftYieldsNoPageCalls ==
  /\ \A k \in 1..Len(calls) :
       calls[k].file # 0 => ~GetBool(File(calls[k].file).meta, "draft")
  /\ \A c \in 1..Len(classes) :
       GetBool(File(classes[c].file).meta, "draft") =>
         classes[c].class = "ineligible" /\ classes[c].matched = 0
  /\ DraftOnly =>
       /\ \A k \in 1..Len(calls) :
            calls[k].op = "DeletePost" /\ opts.del /\ Live /\ calls[k].id \in RemoteIDs
       /\ Listed => PoolIDs = RemoteIDs
       /\ (Returned /\ opts.del /\ Live) => DeletedIDs = RemoteIDs

\* A live run with --delete on a content tree whose only page is a draft has
\* returned after it deleted the listed posts.
C17_Witness ==
  /\ DraftOnly
  /\ Returned
  /\ Live
  /\ opts.del
  /\ Len(remote) = 2
  /\ DeletedIDs = RemoteIDs

\* The snapshot GetUserPosts returned at the start of the run.
Snapshot == [i \in 1..Len(remote) |-> PostList[remote[i]]]

\* The pages matched so far.
MatchedPages == {c \in 1..Len(classes) : classes[c].matched # 0}

\* The identifiers of the posts the run has created or updated.
WrittenIDs ==
  {calls[k].id : k \in {m \in 1..Len(calls) : calls[m].op = "UpdatePost"}}
  \cup {NewID(files[calls[k].file]) : k \in {m \in 1..Len(calls) : calls[m].op = "CreatePost"}}

\* C27: once the posts are listed the pool is the snapshot without some of
\* its entries, in the order of the snapshot and with no entry twice; it is
\* one entry shorter than the snapshot for each page matched so far, pages
\* that are not matched or not eligible leave it alone; only posts of the
\* snapshot are passed to DeletePost, and no post the run has created or
\* updated is.
C27_PoolWithinSnapshot ==
  Listed =>
    LET inPool(p) == p.ID \in PoolIDs
    IN /\ posts = SelectSeq(Snapshot, inPool)
       /\ Cardinality(PoolIDs) = Len(posts)
       /\ Len(posts) + Cardinality(MatchedPages) = Len(Snapshot)
       /\ DeletedIDs \subseteq {Snapshot[i].ID : i \in 1..Len(Snapshot)}
       /\ DeletedIDs \cap WrittenIDs = {}

\* A live run with --delete has updated the first post of the snapshot,
\* created a post for an unmatched page and deleted the second post.
C27_Witness ==
  /\ Returned
  /\ opts.del
  /\ Live
  /\ Len(Snapshot) = 2
  /\ posts = <<Snapshot[2]>>
  /\ DeletedIDs = {Snapshot[2].ID}
  /\ \E k \in 1..Len(calls) :
       calls[k].op = "UpdatePost" /\ calls[k].id = Snapshot[1].ID /\ calls[k].ok
  /\ \E k \in 1..Len(calls) : calls[k].op = "CreatePost" /\ calls[k].ok

\* The collection the frontmatter of a file names, if it is a string that
\* is not empty.
Override(f) ==
  IF "collection" \in DOMAIN f.meta /\ f.meta["collection"].t = "string"
  THEN f.meta["collection"].s ELSE << >>

\* The pages before the c-th page processed that have a collection of their
\* own.
OverridesBefore(c) ==
  {d \in 1..(c - 1) : classes[d].class # "ineligible" /\ Override(File(classes[d].file)) # << >>}

\* C28: the collection a page is matched, created or updated and pinned or
\* unpinned under is the collection of its frontmatter when that is a string
\* that is not empty, and the default of the options otherwise; the default
\* of the options is never changed, so a page without a collection of its own
\* that comes after a page with one is still handled under the default.
C28_EffectiveCollection ==
  /\ opts.collection = sBlog
  /\ \A c \in 1..Len(classes) :
       LET e == classes[c]
           f == File(e.file)
           effective == IF Override(f) # << >> THEN Override(f) ELSE sBlog
       IN e.class # "ineligible" =>
            /\ e.collection = effective
            /\ e.matched # 0 => postCollection(PostList[e.matched]) = effective
            /\ \A k \in 1..Len(calls) :
                 calls[k].file = e.file =>
                   /\ calls[k].col = effective
                   /\ calls[k].params # << >> => calls[k].params[1].Collection = effective

\* A page with a collection of its own was created there, and the page
\* after it, which has none, was matched, updated, unpinned and pinned under
\* the default.
C28_Witness ==
  /\ Returned
  /\ Live
  /\ Len(classes) = 2
  /\ OverridesBefore(2) = {1}
  /\ classes[1].class = "Create"
  /\ classes[1].collection = sOther
  /\ Override(File(classes[2].file)) = << >>
  /\ classes[2].class = "Update"
  /\ classes[2].collection = sBlog
  /\ \E k \in CallsFor("UpdatePost", 2) : calls[k].ok /\ calls[k].col = sBlog
  /\ \E k \in CallsFor("UnpinPost", 2) : calls[k].col = sBlog
  /\ \E k \in CallsFor("PinPost", 2) : calls[k].col = sBlog

(***************************************************************************)
(* The equality law, applied to pairs of posts                             *)
(***************************************************************************)
sSerif == <<"s","e","r","i","f">>
sFr    == <<"f","r">>

\* The posts the equality law is applied to.
EqPosts ==
  [ID : {1, 4}, Token : {11}, Slug : {sa, sOld},
   Collection : {<< >>, <<[Alias |-> sBlog]>>},
   Title : {sA, sOld}, Content : {sX, sY}, Font : {sNorm, sSerif},
   Language : {<< >>, <<sEn>>, <<sFr>>}, RTL : {<< >>, <<FALSE>>, <<TRUE>>},
   Created : {1, 2}, Updated : {1, 2}]

\* The parameters that describe a post, field by field.
postParams(post) ==
  [ID |-> post.ID, Token |-> post.Token, Content |-> post.Content,
   Created |-> IF post.Created = 0 THEN << >> ELSE <<post.Created>>,
   Font |-> post.Font, IsRTL |-> post.RTL, Language |-> post.Language,
   Slug |-> post.Slug, Title |-> post.Title, Updated |-> <<post.Updated>>,
   Collection |-> postCollection(post)]

idleRun ==
  /\ files = << >>
  /\ remote = << >>
  /\ opts = [del |-> FALSE, dryRun |-> FALSE, force |-> FALSE, collection |-> sBlog]
  /\ pc = "start"
  /\ posts = << >>
  /\ next = 1
  /\ j = 1
  /\ calls = << >>
  /\ classes = << >>
  /\ warned = << >>
  /\ ret = "none"
  /\ prev = << >>

runVars == <<files, remote, opts, pc, posts, next, j, calls, classes, warned, ret, prev>>

InitEq ==
  /\ idleRun
  /\ fnArgs \in [fn : {"eq"},
                 p1 : {<< >>, <<PostList[1]>>, <<PostList[4]>>},
                 p2 : {<< >>} \cup {<<p>> : p \in EqPosts},
                 force : BOOLEAN]
  /\ fnRes = << >>

\* eqPost on the two posts, in both orders, and on the second post and
\* itself; and the decision publish takes for a matched post p1 and the
\* parameters that describe p2, and for p2 and the parameters of p1.
ApplyEq ==
  /\ fnRes = << >>
  /\ fnArgs.fn = "eq"
  /\ fnRes' = <<[eq |-> eqPost(fnArgs.p1, fnArgs.p2),
                 swapped |-> eqPost(fnArgs.p2, fnArgs.p1),
                 self |-> eqPost(fnArgs.p2, fnArgs.p2),
                 update |-> /\ fnArgs.p1 # << >>
                            /\ fnArgs.p2 # << >>
                            /\ ~skipUpdate([force |-> fnArgs.force], fnArgs.p1,
                                           postParams(fnArgs.p2[1])),
                 updateSwapped |-> /\ fnArgs.p1 # << >>
                                   /\ fnArgs.p2 # << >>
                                   /\ ~skipUpdate([force |-> fnArgs.force], fnArgs.p2,
                                                  postParams(fnArgs.p1[1]))]>>
  /\ UNCHANGED <<fnArgs, runVars>>

SpecEq == InitEq /\ [][ApplyEq]_vars

\* Identifier, slug, font, language, right-to-left flag, title and content
\* of two posts are equal.
SevenEqual(a, b) ==
  /\ a.ID = b.ID
  /\ a.Slug = b.Slug
  /\ a.Font = b.Font
  /\ a.Language = b.Language
  /\ a.RTL = b.RTL
  /\ a.Title = b.Title
  /\ a.Content = b.Content

\* C6: the equality test is true of two posts exactly when their identifier,
\* slug, font, language, right-to-left flag, title and content are equal,
\* whatever their timestamps and collections are, and without -f a post equal
\* in these seven is not updated.
C6_EqualityLaw ==
  (fnRes # << >> /\ fnArgs.p1 # << >> /\ fnArgs.p2 # << >>) =>
    /\ fnRes[1].eq <=> SevenEqual(fnArgs.p1[1], fnArgs.p2[1])
    /\ (SevenEqual(fnArgs.p1[1], fnArgs.p2[1]) /\ ~fnArgs.force) => ~fnRes[1].update

\* Two posts that differ in their timestamps and their collection only were
\* found equal, and no update was decided.
C6_Witness ==
  /\ fnRes # << >>
  /\ fnArgs.p1 # << >>
  /\ fnArgs.p2 # << >>
  /\ fnArgs.p1[1].Created # fnArgs.p2[1].Created
  /\ fnArgs.p1[1].Updated # fnArgs.p2[1].Updated
  /\ fnArgs.p1[1].Collection # fnArgs.p2[1].Collection
  /\ ~fnArgs.force
  /\ fnRes[1].eq
  /\ ~fnRes[1].update

\* C26: the equality test finds every post, and a nil post, equal to itself,
\* and gives the same answer for two posts in either order, nil posts and nil
\* language and right-to-left fields included; the decision to update is the
\* same in either order.
C26_EqualityReflexiveSymmetric ==
  (fnRes # << >> /\ fnArgs.fn = "eq") =>
    /\ fnRes[1].self
    /\ fnRes[1].swapped = fnRes[1].eq
    /\ fnRes[1].updateSwapped = fnRes[1].update

\* A nil post was compared with a post whose language and right-to-left
\* flag are nil, and found different in both orders.
C26_Witness ==
  /\ fnRes # << >>
  /\ fnArgs.fn = "eq"
  /\ fnArgs.p1 = << >>
  /\ fnArgs.p2 # << >>
  /\ fnArgs.p2[1].Language = << >>
  /\ fnArgs.p2[1].RTL = << >>
  /\ fnRes[1].self
  /\ ~fnRes[1].eq
  /\ ~fnRes[1].swapped

(***************************************************************************)
(* The timestamps of the parameters, applied to frontmatters               *)
(***************************************************************************)
\* A key the frontmatter does not hold.
Absent == [t |-> "absent"]

\* The values of publishDate, date and lastmod the parameters are built for.
TimeChoices ==
  [publishDate : {Absent, TimeV(0), TimeV(3), StrV(d2020), IntV(7)},
   date : {Absent, TimeV(0), TimeV(4), StrV(d2021), StrV(sA)},
   lastmod : {Absent, TimeV(0), TimeV(5), StrV(d2020 \o midnight)}]

\* The frontmatter with title "A" and the chosen values.
TimeMeta(c) ==
  [k \in {"title"} \cup {x \in DOMAIN c : c[x] # Absent} |->
     IF k = "title" THEN StrV(sA) ELSE c[k]]

InitParams ==
  /\ idleRun
  /\ fnArgs \in [fn : {"params"},
                 meta : {TimeMeta(c) : c \in TimeChoices},
                 existingPost : {<< >>, <<PostList[1]>>}]
  /\ fnRes = << >>

\* The parameters the callback builds for a page with the frontmatter.
ApplyParams ==
  /\ fnRes = << >>
  /\ fnArgs.fn = "params"
  /\ fnRes' = <<pageParams(opts,
                           [path |-> Path(<<"p","1">>, md), dir |-> FALSE, fail |-> "none",
                            header |-> "toml", meta |-> fnArgs.meta, out |-> sX],
                           fnArgs.existingPost)>>
  /\ UNCHANGED <<fnArgs, runVars>>

SpecParams == InitParams /\ [][ApplyParams]_vars

\* C12: the Created parameter is publishDate when that is a non-zero time,
\* otherwise date when that is a non-zero time, otherwise nil, and never a
\* pointer to the zero time; the Updated parameter is lastmod when that is a
\* non-zero time, otherwise the creation time so derived.
C12_CreatedUpdated ==
  (fnRes # << >> /\ fnArgs.fn = "params") =>
    LET publishDate == GetTime(fnArgs.meta, "publishDate")
        date == GetTime(fnArgs.meta, "date")
        lastmod == GetTime(fnArgs.meta, "lastmod")
        created == IF publishDate # 0 THEN publishDate ELSE date
    IN /\ fnRes[1].Created = IF publishDate # 0 THEN <<publishDate>>
                             ELSE IF date # 0 THEN <<date>>
                             ELSE << >>
       /\ fnRes[1].Created # <<0>>
       /\ fnRes[1].Updated = <<IF lastmod # 0 THEN lastmod ELSE created>>

\* The parameters were built for a frontmatter whose publishDate is the zero
\* time, whose date is a date string and that has no lastmod.
C12_Witness ==
  /\ fnRes # << >>
  /\ fnArgs.fn = "params"
  /\ get(fnArgs.meta, "publishDate") = <<TimeV(0), TRUE>>
  /\ get(fnArgs.meta, "date") = <<StrV(d2021), TRUE>>
  /\ "lastmod" \notin DOMAIN fnArgs.meta
  /\ fnRes[1].Created = <<2>>
  /\ fnRes[1].Updated = <<2>>

(***************************************************************************)
(* Slug, applied to paths and frontmatters                                 *)
(***************************************************************************)
sIndex    == <<"i","n","d","e","x">>
sMarkdown == <<"m","a","r","k","d","o","w","n">>

\* The paths Slug is applied to.
SlugPaths ==
  {Path(<<"p","1">>, md),
   Path(sIndex, md),
   Path(sIndex, sMarkdown),
   Path(<<"M","y"," ","P","o","s","t">>, md),
   Path(<<"a",".","b">>, md),
   Path(<<"I","n","d","e","x">>, sMarkdown),
   <<"M","y"," ","D","i","r",Separator>> \o sIndex \o <<".">> \o md,
   <<"a",Separator,"B",Separator>> \o sIndex \o <<".">> \o md,
   sIndex \o <<".">> \o md,
   <<Separator>> \o sIndex \o <<".">> \o md}

\* The values of slug and title Slug is applied to.
SlugChoices ==
  [slug : {Absent, StrV(<< >>), StrV(<<"M","y"," ","S","l","u","g">>),
           StrV(<<"a",Separator,"B">>), IntV(7)},
   title : {Absent, StrV(<< >>), StrV(<<"H","i">>), StrV(<<"A"," ","B">>), BoolV(TRUE)}]

\* The frontmatter with the chosen values.
SlugMeta(c) == [k \in {x \in DOMAIN c : c[x] # Absent} |-> c[k]]

InitSlug ==
  /\ idleRun
  /\ fnArgs \in [fn : {"slug"}, path : SlugPaths,
                 meta : {SlugMeta(c) : c \in SlugChoices}]
  /\ fnRes = << >>

ApplySlug ==
  /\ fnRes = << >>
  /\ fnArgs.fn = "slug"
  /\ fnRes' = <<Slug(fnArgs.path, fnArgs.meta)>>
  /\ UNCHANGED <<fnArgs, runVars>>

SpecSlug == InitSlug /\ [][ApplySlug]_vars

\* The string a frontmatter holds under a key, "" when it holds none.
StringOf(m, key) ==
  IF key \in DOMAIN m /\ m[key].t = "string" THEN m[key].s ELSE << >>

\* A string in lower case with "-" for every space and path separator.
Slugified(v) ==
  [k \in 1..Len(v) |->
     IF v[k] = " " \/ v[k] = Separator THEN "-" ELSE ToLowerChar(v[k])]

IsIndexFile(path) ==
  LET base == Base(path)
  IN Len(base) > 6 /\ SubSeq(base, 1, 6) = sIndex \o <<".">>

\* C19: for a frontmatter with neither a slug nor a title string, the slug
\* is the name of the parent directory when the base name of the path is
\* index with any extension, and the base name without its extension
\* otherwise, slugified.
C19_IndexAnyExtension ==
  (fnRes # << >> /\ fnArgs.fn = "slug"
   /\ StringOf(fnArgs.meta, "slug") = << >> /\ StringOf(fnArgs.meta, "title") = << >>) =>
    LET base == Base(fnArgs.path)
    IN fnRes[1] = IF IsIndexFile(fnArgs.path)
                  THEN Slugified(Base(Dir(fnArgs.path)))
                  ELSE Slugified(TrimSuffix(base, Ext(base)))

(***************************************************************************)
(* The accessors of Metadata, applied to frontmatters                      *)
(***************************************************************************)
\* The values the frontmatter holds under the key "k".
MetaValues ==
  {Absent, NilV, StrV(<< >>), StrV(sA), StrV(d2020), StrV(d2020 \o midnight),
   StrV(d2021 \o midnight \o <<"Z">>), StrV(d2020 \o sX),
   BoolV(TRUE), BoolV(FALSE), IntV(7), TimeV(0), TimeV(2)}

MetaChoices == [k : MetaValues, other : {Absent, StrV(sOld), BoolV(TRUE), TimeV(3)}]

InitMeta ==
  /\ idleRun
  /\ fnArgs \in [fn : {"get"}, meta : {SlugMeta(c) : c \in MetaChoices}, key : {"k", "z"}]
  /\ fnRes = << >>

\* GetString, GetBool and GetTime for the key, and the map after the calls.
ApplyGet ==
  /\ fnRes = << >>
  /\ fnArgs.fn = "get"
  /\ fnRes' = <<[str |-> GetString(fnArgs.meta, fnArgs.key),
                 bool |-> GetBool(fnArgs.meta, fnArgs.key),
                 time |-> GetTime(fnArgs.meta, fnArgs.key),
                 meta |-> fnArgs.meta]>>
  /\ UNCHANGED <<fnArgs, runVars>>

SpecMeta == InitMeta /\ [][ApplyGet]_vars

\* The time of a string: that of the first layout of fmts it parses with,
\* the zero time when it parses with none.
FirstFormat(str) ==
  IF \E k \in 1..Len(fmts) : timeParse(fmts[k], str)[2]
  THEN LET k == CHOOSE k \in 1..Len(fmts) :
                  /\ timeParse(fmts[k], str)[2]
                  /\ \A m \in 1..(k - 1) : ~timeParse(fmts[m], str)[2]
       IN timeParse(fmts[k], str)[1]
  ELSE 0

\* C20: for a key the map does not hold and for a value of another type,
\* GetString gives "", GetBool false and GetTime the zero time; GetString
\* and GetBool give a string and a boolean as they are, GetTime gives a time
\* as it is and a string as the first format of fmts parses it; the map after
\* the calls is the map before them.
C20_AccessorsTotal ==
  (fnRes # << >> /\ fnArgs.fn = "get") =>
    LET m == fnArgs.meta
        present == fnArgs.key \in DOMAIN m
        type == IF present THEN m[fnArgs.key].t ELSE "absent"
        r == fnRes[1]
    IN /\ r.str = IF type = "string" THEN m[fnArgs.key].s ELSE << >>
       /\ r.bool = IF type = "bool" THEN m[fnArgs.key].b ELSE FALSE
       /\ r.time = IF type = "time" THEN m[fnArgs.key].tm
                   ELSE IF type = "string" THEN FirstFormat(m[fnArgs.key].s)
                   ELSE 0
       /\ r.meta = m

\* The accessors were applied to a key that holds an integer, next to a key
\* that holds a time, and gave the zero values.
C20_Witness ==
  /\ fnRes # << >>
  /\ fnArgs.fn = "get"
  /\ get(fnArgs.meta, fnArgs.key) = <<IntV(7), TRUE>>
  /\ get(fnArgs.meta, "other") = <<TimeV(3), TRUE>>
  /\ fnRes[1].str = << >>
  /\ fnRes[1].bool = FALSE
  /\ fnRes[1].time = 0

(***************************************************************************)
(* The Normalizer: unwrapRenderer (src/markdown.go)                        *)
(***************************************************************************)
\* The largest list level and quote level a node is rendered at, and the
\* largest number of containers open below the document in a traversal.
MaxDepth == 2

NL == "\n"

\* The byte 0x60 of code spans and fences, which a string of TLA+ cannot hold.
Tick == "tick"

\* The node types of blackfriday; Table and Softbreak have no case in
\* RenderNode.
ContainerTypes ==
  {"Document", "BlockQuote", "List", "Item", "Paragraph", "Heading", "Emph", "Strong",
   "Del", "Link", "Image", "Table"}
LeafTypes ==
  {"HorizontalRule", "Text", "HTMLBlock", "CodeBlock", "Code", "Hardbreak", "HTMLSpan",
   "Softbreak"}
NodeTypes == ContainerTypes \cup LeafTypes

\* What a handler leaves: the renderer and the bytes it wrote to w.
Rendered(rend, out) == [rend |-> rend, out |-> out]

RECURSIVE Repeat(_, _)
\* n times the string s.
Repeat(s, n) == IF n <= 0 THEN << >> ELSE s \o Repeat(s, n - 1)

\* bytes.ReplaceAll for a one-byte old and new.
bytesReplaceAll(s, old, new) == [k \in 1..Len(s) |-> IF s[k] = old THEN new ELSE s[k]]

\* The %q verb for a string without quotes, backslashes and control bytes.
Quoted(s) == <<"\"">> \o s \o <<"\"">>

renderLink(rend, node, entering) ==
  IF entering THEN Rendered(rend, <<"[">>)
  ELSE Rendered(rend, <<"]", "(">> \o node.Destination \o <<" ">> \o Quoted(node.Title)
                      \o <<")">>)

renderImage(rend, node, entering) ==
  IF entering THEN Rendered(rend, <<"!", "[">>)
  ELSE Rendered(rend, <<"]", "(">> \o node.Destination \o <<" ">> \o Quoted(node.Title)
                      \o <<")">>)

renderList(rend, node, entering) ==
  IF entering THEN Rendered([rend EXCEPT !.listLevel = @ + 1], << >>)
  ELSE Rendered([rend EXCEPT !.listLevel = @ - 1], << >>)

\* renderItem indenting by the list level less one.
renderItem_zeroBased(rend, node, entering) ==
  IF ~entering THEN Rendered(rend, << >>)
  ELSE Rendered(rend, Repeat(<<" ", " ">>, rend.listLevel - 1) \o <<"*", " ">>)

renderItem(rend, node, entering) ==
  IF ~entering THEN Rendered(rend, << >>)
  ELSE Rendered(rend, Repeat(<<" ", " ">>, rend.listLevel) \o <<"*", " ">>)

renderHeading(rend, node, entering) ==
  IF ~entering THEN Rendered(rend, <<NL>>)
  ELSE Rendered(rend, Repeat(<<"#">>, node.Level) \o <<" ">>)

\* renderBlockQuote leaving the quote level as it is on exit.
renderBlockQuote_noDecrement(rend, node, entering) ==
  IF ~entering THEN Rendered(rend, <<NL>>)
  ELSE Rendered([rend EXCEPT !.quoteLevel = @ + 1], << >>)

renderBlockQuote(rend, node, entering) ==
  IF ~entering THEN Rendered([rend EXCEPT !.quoteLevel = @ - 1], <<NL>>)
  ELSE Rendered([rend EXCEPT !.quoteLevel = @ + 1], << >>)

\* renderText dropping the newlines.
renderText_dropNewlines(rend, node, entering) ==
  LET notNL(c) == c # NL
  IN IF ~entering THEN Rendered(rend, << >>)
     ELSE Rendered(rend, SelectSeq(node.Literal, notNL))

renderText(rend, node, entering) ==
  IF ~entering THEN Rendered(rend, << >>)
  ELSE Rendered(rend, bytesReplaceAll(node.Literal, NL, " "))

renderHardBreak(rend, node, entering) ==
  IF ~entering THEN Rendered(rend, << >>)
  ELSE Rendered(rend, <<NL>>)

renderHTMLBlock(rend, node, entering) ==
  IF ~entering THEN Rendered(rend, << >>)
  ELSE Rendered(rend, (IF Len(node.Literal) > 0 THEN node.Literal ELSE << >>) \o <<NL, NL>>)

renderHTMLSpan(rend, node, entering) ==
  IF ~entering THEN Rendered(rend, << >>)
  ELSE Rendered(rend, IF Len(node.Literal) > 0 THEN node.Literal ELSE << >>)

\* renderPar without the newline between two paragraphs.
renderPar_noBlankLine(rend, node, entering) ==
  Rendered(rend,
           (IF ~entering THEN <<NL>> ELSE << >>)
           \o (IF rend.quoteLevel > 0 THEN <<">", " ">> ELSE << >>))

\* The exit branch of renderPar writes the newline and does not return: the
\* quote mark and the newline after a paragraph are written on exit as well.
renderPar(rend, node, entering) ==
  Rendered(rend,
           (IF ~entering THEN <<NL>> ELSE << >>)
           \o (IF rend.quoteLevel > 0 THEN <<">", " ">> ELSE << >>)
           \o (IF node.Prev # << >> /\ node.Prev[1] = "Paragraph" THEN <<NL>> ELSE << >>))

renderSpan(wrap, rend, node, entering) == Rendered(rend, wrap)

\* renderHR writing the rule on exit.
renderHR_onExit(rend, node, entering) ==
  IF entering THEN Rendered(rend, << >>)
  ELSE Rendered(rend, <<"-", "-", "-", NL>>)

renderHR(rend, node, entering) ==
  IF ~entering THEN Rendered(rend, << >>)
  ELSE Rendered(rend, <<"-", "-", "-", NL>>)

renderCode(rend, node, entering) ==
  Rendered(rend, <<Tick>> \o node.Literal \o <<Tick>>)

renderCodeBlock(rend, node, entering) ==
  Rendered(rend, <<Tick, Tick, Tick>> \o node.Info \o <<NL>> \o node.Literal
                 \o <<Tick, Tick, Tick, NL>>)

RenderNode(rend, node, entering) ==
  CASE node.Type = "Document" -> Rendered(rend, << >>)
    [] node.Type = "List" -> renderList(rend, node, entering)
    [] node.Type = "Item" -> renderItem(rend, node, entering)
    [] node.Type = "Paragraph" -> renderPar(rend, node, entering)
    [] node.Type = "Heading" -> renderHeading(rend, node, entering)
    [] node.Type = "HorizontalRule" -> renderHR(rend, node, entering)
    [] node.Type = "Emph" -> renderSpan(<<"*">>, rend, node, entering)
    [] node.Type = "Strong" -> renderSpan(<<"*", "*">>, rend, node, entering)
    [] node.Type = "Del" -> renderSpan(<<"~", "~">>, rend, node, entering)
    [] node.Type = "Link" -> renderLink(rend, node, entering)
    [] node.Type = "Image" -> renderImage(rend, node, entering)
    [] node.Type = "BlockQuote" -> renderBlockQuote(rend, node, entering)
    [] node.Type = "Text" -> renderText(rend, node, entering)
    [] node.Type = "HTMLBlock" -> renderHTMLBlock(rend, node, entering)
    [] node.Type = "CodeBlock" -> renderCodeBlock(rend, node, entering)
    [] node.Type = "Code" -> renderCode(rend, node, entering)
    [] node.Type = "Hardbreak" -> renderHardBreak(rend, node, entering)
    [] node.Type = "HTMLSpan" -> renderHTMLSpan(rend, node, entering)
    [] OTHER -> Rendered(rend, << >>)

\* A node: its type, its literal, the type of its previous sibling (nil when
\* it is the first child), and the data of headings, links and code blocks.
Node(type, literal, prevType) ==
  [Type |-> type, Literal |-> literal, Prev |-> prevType, Level |-> 2,
   Destination |-> <<"u">>, Title |-> <<"t">>, Info |-> <<"g","o">>]

\* The literals of the nodes RenderNode is applied to.
Literals == {<< >>, <<"a">>, <<NL>>, <<"a", NL, "b">>, <<"a", NL, NL, "b", NL>>}

InitNode ==
  /\ idleRun
  /\ fnArgs \in [fn : {"node"},
                 node : {Node(t, l, pv) : t \in NodeTypes, l \in Literals,
                                          pv \in {<< >>, <<"Paragraph">>, <<"List">>}},
                 entering : BOOLEAN,
                 rend : [listLevel : 0..MaxDepth, quoteLevel : 0..MaxDepth]]
  /\ fnRes = << >>

\* One call of RenderNode.
ApplyRenderNode ==
  /\ fnRes = << >>
  /\ fnArgs.fn = "node"
  /\ fnRes' = <<RenderNode(fnArgs.rend, fnArgs.node, fnArgs.entering)>>
  /\ UNCHANGED <<fnArgs, runVars>>

SpecNode == InitNode /\ [][ApplyRenderNode]_vars

\* RenderNode was called for a node of the type.
RenderedType(type) == fnRes # << >> /\ fnArgs.fn = "node" /\ fnArgs.node.Type = type

\* C21: for a Text node RenderNode writes, on enter, the literal with a space
\* for each newline and every other byte as it is: as many bytes as the
\* literal has, none of them a newline; on exit it writes nothing.
C21_TextUnwrapped ==
  RenderedType("Text") =>
    LET lit == fnArgs.node.Literal
        out == fnRes[1].out
    IN IF fnArgs.entering
       THEN /\ Len(out) = Len(lit)
            /\ \A k \in 1..Len(lit) :
                 /\ lit[k] = NL => out[k] = " "
                 /\ lit[k] # NL => out[k] = lit[k]
                 /\ out[k] # NL
       ELSE out = << >>

\* A Text node with two newlines in a row was entered.
C21_Witness ==
  /\ RenderedType("Text")
  /\ fnArgs.entering
  /\ fnArgs.node.Literal = <<"a", NL, NL, "b", NL>>
  /\ fnRes[1].out = <<"a", " ", " ", "b", " ">>

\* C22: for a Paragraph node RenderNode writes, on enter, "> " exactly when
\* the quote level is above 0, then a newline exactly when the previous
\* sibling is a Paragraph; on exit it writes one newline and nothing else.
C22_ParagraphMarks ==
  RenderedType("Paragraph") =>
    fnRes[1].out =
      IF fnArgs.entering
      THEN (IF fnArgs.rend.quoteLevel > 0 THEN <<">", " ">> ELSE << >>)
           \o (IF fnArgs.node.Prev = <<"Paragraph">> THEN <<NL>> ELSE << >>)
      ELSE <<NL>>

\* C23 as claimed: for a HorizontalRule node RenderNode writes "---" and a
\* newline on exit and nothing on enter.
C23_RuleOnExit ==
  RenderedType("HorizontalRule") =>
    fnRes[1].out = IF fnArgs.entering THEN << >> ELSE <<"-", "-", "-", NL>>

\* C23: for a HorizontalRule node RenderNode writes "---" and a newline on
\* enter and nothing on exit.
C23_RuleOnEnter ==
  RenderedType("HorizontalRule") =>
    fnRes[1].out = IF fnArgs.entering THEN <<"-", "-", "-", NL>> ELSE << >>

\* A HorizontalRule node was entered inside a quote.
C23_Witness ==
  /\ RenderedType("HorizontalRule")
  /\ fnArgs.entering
  /\ fnArgs.rend.quoteLevel = 1
  /\ fnRes[1].out = <<"-", "-", "-", NL>>

(***************************************************************************)
(* The traversal of a document: blackfriday's Walk calling RenderNode      *)
(***************************************************************************)
\* The children a container of the parsed document can have.  A node of
\* another type has none: the walker visits it once, entering.
ChildTypes(type) ==
  CASE type \in {"Document", "Item", "BlockQuote"} ->
         {"Paragraph", "List", "BlockQuote", "HorizontalRule"}
    [] type = "List" -> {"Item"}
    [] type = "Paragraph" -> {"Text", "Hardbreak", "Emph"}
    [] type = "Emph" -> {"Text"}
    [] OTHER -> {}

\* The containers of the type that are entered and not yet exited.
Open(w, type) == Cardinality({k \in 1..Len(w.stack) : w.stack[k].type = type})

\* The node of the type that comes next under the innermost open container:
\* its Prev is the child visited last.
NextNode(w, type, literal) ==
  Node(type, literal,
       IF w.stack = << >> \/ w.stack[Len(w.stack)].last = "none" THEN << >>
       ELSE <<w.stack[Len(w.stack)].last>>)

\* The traversal with the child of the type completed.
Completed(stack, type) ==
  IF stack = << >> THEN stack ELSE [stack EXCEPT ![Len(stack)].last = type]

InitWalk ==
  /\ idleRun
  /\ fnArgs = [fn |-> "walk"]
  /\ fnRes = <<[stack |-> << >>, rend |-> [listLevel |-> 0, quoteLevel |-> 0],
                node |-> "none", entering |-> FALSE, out |-> << >>, done |-> FALSE]>>

\* The walker enters a container: the document first, then a child of the
\* innermost open container.
WalkEnter ==
  /\ fnArgs.fn = "walk"
  /\ LET w == fnRes[1]
     IN /\ ~w.done
        /\ \E type \in ContainerTypes :
             /\ IF w.stack = << >> THEN type = "Document"
                ELSE type \in ChildTypes(w.stack[Len(w.stack)].type)
             /\ type \in {"List", "BlockQuote"}
                  => Open(w, "List") + Open(w, "BlockQuote") < MaxDepth
             /\ LET r == RenderNode(w.rend, NextNode(w, type, << >>), TRUE)
                IN fnRes' = <<[w EXCEPT !.stack = Append(@, [type |-> type, last |-> "none"]),
                                        !.rend = r.rend, !.out = r.out,
                                        !.node = type, !.entering = TRUE]>>
  /\ UNCHANGED <<fnArgs, runVars>>

\* The walker visits a node without children.
WalkLeaf ==
  /\ fnArgs.fn = "walk"
  /\ LET w == fnRes[1]
     IN /\ ~w.done
        /\ w.stack # << >>
        /\ \E type \in ChildTypes(w.stack[Len(w.stack)].type) \cap LeafTypes :
             \E literal \in (IF type = "Text" THEN {<<"a">>, <<"a", NL, "b">>} ELSE {<< >>}) :
               LET r == RenderNode(w.rend, NextNode(w, type, literal), TRUE)
               IN fnRes' = <<[w EXCEPT !.stack = Completed(@, type),
                                       !.rend = r.rend, !.out = r.out,
                                       !.node = type, !.entering = TRUE]>>
  /\ UNCHANGED <<fnArgs, runVars>>

\* The walker leaves the innermost open container (a list has an item by
\* then); leaving the document ends the traversal.
WalkExit ==
  /\ fnArgs.fn = "walk"
  /\ LET w == fnRes[1]
         top == w.stack[Len(w.stack)]
         rest == SubSeq(w.stack, 1, Len(w.stack) - 1)
     IN /\ ~w.done
        /\ w.stack # << >>
        /\ top.type = "List" => top.last # "none"
        /\ LET r == RenderNode(w.rend, Node(top.type, << >>, << >>), FALSE)
           IN fnRes' = <<[w EXCEPT !.stack = Completed(rest, top.type),
                                   !.rend = r.rend, !.out = r.out,
                                   !.node = top.type, !.entering = FALSE,
                                   !.done = (rest = << >>)]>>
  /\ UNCHANGED <<fnArgs, runVars>>

NextWalk == WalkEnter \/ WalkLeaf \/ WalkExit

SpecWalk == InitWalk /\ [][NextWalk]_vars

\* The last event of the traversal was for a node of the type.
Visited(type, entering) ==
  /\ fnArgs.fn = "walk"
  /\ fnRes[1].node = type
  /\ fnRes[1].entering = entering

\* C24: on entering an Item the Normalizer writes two spaces for each List
\* entered and not yet exited, then "* "; on leaving an Item it writes
\* nothing; for a List it writes nothing on either event.
C24_ItemIndent ==
  /\ Visited("Item", TRUE)
       => fnRes[1].out = Repeat(<<" ", " ">>, Open(fnRes[1], "List")) \o <<"*", " ">>
  /\ Visited("Item", FALSE) => fnRes[1].out = << >>
  /\ Visited("List", TRUE) \/ Visited("List", FALSE) => fnRes[1].out = << >>

\* An item of a list inside the item of a list was entered: four spaces.
C24_Witness ==
  /\ Visited("Item", TRUE)
  /\ Open(fnRes[1], "List") = 2
  /\ fnRes[1].out = <<" ", " ", " ", " ", "*", " ">>

\* C29: at every point of a traversal the list level is the number of Lists
\* entered and not yet exited and the quote level the number of BlockQuotes
\* entered and not yet exited; neither is negative, and both are 0 when the
\* traversal ends.
C29_LevelsBalanced ==
  fnArgs.fn = "walk" =>
    LET w == fnRes[1]
    IN /\ w.rend.listLevel >= 0
       /\ w.rend.quoteLevel >= 0
       /\ w.rend.listLevel = Open(w, "List")
       /\ w.rend.quoteLevel = Open(w, "BlockQuote")
       /\ w.done => w.rend.listLevel = 0 /\ w.rend.quoteLevel = 0

\* A BlockQuote inside the item of a list was left: the list is still open.
C29_Witness ==
  /\ Visited("BlockQuote", FALSE)
  /\ Open(fnRes[1], "List") = 1
  /\ fnRes[1].rend = [listLevel |-> 1, quoteLevel |-> 0]

(***************************************************************************)
(* Unwrapping a body: parse, then render with the Normalizer               *)
(***************************************************************************)
\* The largest number of paragraphs of a document.
MaxPars == 2

Text(literal) == [Type |-> "Text", Literal |-> literal]
Hardbreak == [Type |-> "Hardbreak", Literal |-> << >>]

\* The paragraphs of the documents: a line, two hard-wrapped lines, two lines
\* with a hard break between them, and both.
Paragraphs ==
  {<<Text(<<"a">>)>>, <<Text(<<"b">>)>>, <<Text(<<"a", NL, "b">>)>>,
   <<Text(<<"b", NL, "a", NL, "b">>)>>,
   <<Text(<<"a">>), Hardbreak, Text(<<"b">>)>>,
   <<Text(<<"a", NL, "b">>), Hardbreak, Text(<<"a">>)>>}

\* The document trees: one to MaxPars paragraphs.
Documents == UNION {[1..n -> Paragraphs] : n \in 1..MaxPars}

IsSpace(c) == c \in {" ", NL}

RECURSIVE TrimLeft(_)
TrimLeft(s) == IF s # << >> /\ IsSpace(s[1]) THEN TrimLeft(Tail(s)) ELSE s

RECURSIVE TrimRight(_)
TrimRight(s) ==
  IF s # << >> /\ IsSpace(s[Len(s)]) THEN TrimRight(SubSeq(s, 1, Len(s) - 1)) ELSE s

\* bytes.TrimSpace
TrimSpace(s) == TrimLeft(TrimRight(s))

RECURSIVE SplitLines(_)
\* The lines of a text, without their newlines.
SplitLines(s) ==
  IF \A k \in 1..Len(s) : s[k] # NL THEN <<s>>
  ELSE LET n == CHOOSE k \in 1..Len(s) : s[k] = NL /\ \A m \in 1..(k - 1) : s[m] # NL
       IN <<SubSeq(s, 1, n - 1)>> \o SplitLines(SubSeq(s, n + 1, Len(s)))

RECURSIVE ParseInlines(_, _)
\* The inline nodes of the lines of a paragraph, text carrying the text read
\* so far: a line that ends in two spaces ends in a hard break, and the
\* newline of any other line stays in the literal of the Text node.
ParseInlines(lines, text) ==
  LET line == lines[1]
      hard == Len(line) >= 2 /\ line[Len(line)] = " " /\ line[Len(line) - 1] = " "
  IN IF Len(lines) = 1 THEN <<Text(text \o TrimRight(line))>>
     ELSE IF hard
          THEN <<Text(text \o TrimRight(line)), Hardbreak>> \o ParseInlines(Tail(lines), << >>)
          ELSE ParseInlines(Tail(lines), text \o line \o <<NL>>)

RECURSIVE ParseBlocks(_, _)
\* The paragraphs of the lines of a body, open carrying the lines of the
\* paragraph read so far: a blank line ends a paragraph.
ParseBlocks(lines, open) ==
  LET closed == IF open = << >> THEN << >> ELSE <<ParseInlines(open, << >>)>>
  IN IF lines = << >> THEN closed
     ELSE IF TrimRight(lines[1]) = << >> THEN closed \o ParseBlocks(Tail(lines), << >>)
          ELSE ParseBlocks(Tail(lines), Append(open, lines[1]))

\* The document tree of a body of paragraphs of text.
ParseMarkdown(body) == ParseBlocks(SplitLines(body), << >>)

RECURSIVE JoinOut(_)
\* The outputs of a sequence of calls, in order.
JoinOut(outs) == IF outs = << >> THEN << >> ELSE outs[1] \o JoinOut(Tail(outs))

\* What the traversal of a document of paragraphs writes: the quote and list
\* levels stay 0 throughout.
RenderDocument(doc) ==
  LET rend == [listLevel |-> 0, quoteLevel |-> 0]
      prevOf(k) == IF k = 1 THEN << >> ELSE <<"Paragraph">>
      inline(p, k) ==
        RenderNode(rend, Node(p[k].Type, p[k].Literal,
                              IF k = 1 THEN << >> ELSE <<p[k - 1].Type>>), TRUE).out
      par(k) ==
        RenderNode(rend, Node("Paragraph", << >>, prevOf(k)), TRUE).out
        \o JoinOut([m \in 1..Len(doc[k]) |-> inline(doc[k], m)])
        \o RenderNode(rend, Node("Paragraph", << >>, prevOf(k)), FALSE).out
  IN RenderNode(rend, Node("Document", << >>, << >>), TRUE).out
     \o JoinOut([k \in 1..Len(doc) |-> par(k)])
     \o RenderNode(rend, Node("Document", << >>, << >>), FALSE).out

InitUnwrap ==
  /\ idleRun
  /\ fnArgs \in [fn : {"unwrap"}, doc : Documents]
  /\ fnRes = << >>

\* The first run of the Normalizer, on the document.
Unwrap ==
  /\ fnArgs.fn = "unwrap"
  /\ fnRes = << >>
  /\ fnRes' = <<RenderDocument(fnArgs.doc)>>
  /\ UNCHANGED <<fnArgs, runVars>>

\* The second run: the output of the first is trimmed and parsed as a body
\* is, and the Normalizer runs on the tree.
UnwrapAgain ==
  /\ fnArgs.fn = "unwrap"
  /\ Len(fnRes) = 1
  /\ fnRes' = Append(fnRes, RenderDocument(ParseMarkdown(TrimSpace(fnRes[1]))))
  /\ UNCHANGED <<fnArgs, runVars>>

NextUnwrap == Unwrap \/ UnwrapAgain

SpecUnwrap == InitUnwrap /\ [][NextUnwrap]_vars

\* Both runs of the Normalizer were made.
UnwrappedTwice == fnArgs.fn = "unwrap" /\ Len(fnRes) = 2

\* The document has a node of the type in one of its paragraphs.
HasInline(doc, type) ==
  \E k \in 1..Len(doc) : \E m \in 1..Len(doc[k]) : doc[k][m].Type = type

ServiceCollections ==
  {<< >>, <<[Alias |-> sBlog]>>, <<[Alias |-> sOther]>>, <<[Alias |-> sOld]>>,
   <<[Alias |-> sBlog], [Alias |-> sOther]>>, <<[Alias |-> sOld], [Alias |-> sBlog]>>,
   <<[Alias |-> sOther], [Alias |-> sOld]>>,
   <<[Alias |-> sBlog], [Alias |-> sOther], [Alias |-> sOld]>>}

\* createCollectionIfNotExist for the alias of coll, newColl being what
\* CreateCollection returns if it is called: nil when it fails.  The result
\* is the list returned, whether CreateCollection was called, and whether the
\* nil pointer was dereferenced.  The callers pass the address of a literal,
\* so coll is not nil and *newColl is appended after the error is logged.
createCollectionIfNotExist(colls, coll, newColl) ==
  IF \E k \in 1..Len(colls) : colls[k].Alias = coll[1].Alias
  THEN [colls |-> colls, called |-> FALSE, panic |-> FALSE]
  ELSE IF coll # << >> /\ newColl = << >>
       THEN [colls |-> colls, called |-> TRUE, panic |-> TRUE]
       ELSE [colls |-> IF coll # << >> THEN Append(colls, newColl[1]) ELSE colls,
             called |-> TRUE, panic |-> FALSE]

\* What CreateCollection returns for the parameters: the collection, or nil
\* with an error.
CreateResults(coll) == {<< >>, <<[Alias |-> coll[1].Alias]>>}

InitCreate ==
  /\ idleRun
  /\ fnArgs \in [fn : {"collections"}, service : ServiceCollections,
                 site : {sBlog}, page : {sBlog, sOther, sOld}]
  /\ fnRes = <<[pc |-> "get", collections |-> << >>, before |-> << >>,
                called |-> FALSE, failed |-> FALSE]>>

\* publish fetches the collections of the user: the error is logged and the
\* pointer returned, nil then, is dereferenced.
GetUserCollections ==
  /\ fnArgs.fn = "collections"
  /\ fnRes[1].pc = "get"
  /\ \E err \in BOOLEAN :
       LET colls == IF err THEN << >> ELSE <<fnArgs.service>>
       IN fnRes' = <<[pc |-> IF colls = << >> THEN "panic" ELSE "site",
                      collections |-> IF colls = << >> THEN << >> ELSE colls[1],
                      before |-> << >>, called |-> FALSE, failed |-> err]>>
  /\ UNCHANGED <<fnArgs, runVars>>

\* publish creates the collection of the site if the list lacks it.
CreateSiteCollection ==
  /\ fnArgs.fn = "collections"
  /\ fnRes[1].pc = "site"
  /\ LET coll == <<[Alias |-> fnArgs.site]>>
     IN \E newColl \in CreateResults(coll) :
          LET r == createCollectionIfNotExist(fnRes[1].collections, coll, newColl)
          IN fnRes' = <<[pc |-> IF r.panic THEN "panic" ELSE "page",
                         collections |-> r.colls, before |-> fnRes[1].collections,
                         called |-> r.called, failed |-> r.called /\ newColl = << >>]>>
  /\ UNCHANGED <<fnArgs, runVars>>

\* The callback creates the collection of a page it is about to write, and
\* goes on to write the page.
CreatePageCollection ==
  /\ fnArgs.fn = "collections"
  /\ fnRes[1].pc = "page"
  /\ LET coll == <<[Alias |-> fnArgs.page]>>
     IN \E newColl \in CreateResults(coll) :
          LET r == createCollectionIfNotExist(fnRes[1].collections, coll, newColl)
          IN fnRes' = <<[pc |-> IF r.panic THEN "panic" ELSE "written",
                         collections |-> r.colls, before |-> fnRes[1].collections,
                         called |-> r.called, failed |-> r.called /\ newColl = << >>]>>
  /\ UNCHANGED <<fnArgs, runVars>>

NextCreate == GetUserCollections \/ CreateSiteCollection \/ CreatePageCollection

SpecCreate == InitCreate /\ [][NextCreate]_vars

\* C30: with collection creation enabled publish does not crash; after a
\* failure of GetUserCollections or CreateCollection the run goes on with the
\* list of collections it had, and when the alias is in the list
\* CreateCollection is not called and the list stays as it is.
C30_CollectionFailuresNotFatal ==
  fnArgs.fn = "collections" =>
    LET st == fnRes[1]
    IN /\ st.pc # "panic"
       /\ st.failed => st.collections = st.before
       /\ (st.pc \in {"page", "written"} /\ ~st.called) => st.collections = st.before

====
